---------------------------- MODULE Spec2Model ----------------------------
(***************************************************************************)
(* A model of the JMS-style message selector library: the value algebra    *)
(* (SelectorValue.cpp), the lexer and buffering Tokeniser                  *)
(* (SelectorToken.cpp), the recursive-descent parser, the expression tree  *)
(* and its three-valued evaluator (SelectorExpression.cpp).                *)
(*                                                                         *)
(* Strings (std::string, string_view) are sequences of one-character       *)
(* strings.  An int64_t is a two's complement integer of IntBits bits.  A  *)
(* double is a binary fixed-point number with DScale units per 1.0,        *)
(* together with the IEEE-754 specials: signed zero, the infinities, NaN.  *)
(***************************************************************************)
EXTENDS Integers, Sequences, FiniteSets, TLC

VARIABLES
    pc,          \* position of the calling program
    traps,       \* the build: does the integer divide instruction fault
    exp,         \* make_selector's argument
    tokens,      \* Tokeniser::tokens
    tokp,        \* Tokeniser::tokp
    input,       \* Tokeniser::input (what is left to lex)
    error,       \* Parse::error
    expression,  \* the root ValueExpression (ConcreteExpression::expression)
    env,         \* the Env of the evaluation: identifier -> Value
    root_v,      \* the Value of the root (ValueExpression::eval_bool's v)
    root_bn,     \* the BoolOrNone of the root (ConcreteExpression::eval's bn)
    ret,         \* what the last call returned or threw
    reads,       \* history: the nextToken calls made, net of the returnTokens calls
    redo,        \* history: the tokens a returnTokens call undid, still to be read again
    heap         \* the C interface: Value objects, the environment, the caller's handles

vars == <<pc, traps, exp, tokens, tokp, input, error, expression, env, root_v, root_bn, ret,
          reads, redo, heap>>

(***************************************************************************)
(* Bounds of the model.                                                    *)
(***************************************************************************)
IntBits == 3      \* width of the modelled int64_t
DScale == 2       \* fixed-point units per 1.0 of the modelled double
DMax == 2         \* finite double inputs range over -DMax..DMax units
DMant == 1        \* significand bits of the modelled double
MaxList == 2      \* longest IN list drawn as input
MaxSubject == 2   \* longest LIKE subject drawn as input
MaxPattern == 2   \* longest LIKE pattern drawn as input
MaxTokens == 4    \* most lexemes in a selector text drawn as input
MaxBlank == 3     \* longest whitespace-only text drawn as input
MaxLex == 3       \* longest text drawn as input of the raw lexer
MaxCalls == 5     \* most calls made on one Tokeniser
MaxParse == 3     \* most lexemes appended to a text drawn as input of the parser
MaxValues == 2    \* most Value objects allocated through the C interface

RECURSIVE Pow2(_)
Pow2(n) == IF n = 0 THEN 1 ELSE 2 * Pow2(n - 1)

INT64_MAX == Pow2(IntBits - 1) - 1
INT64_MIN == -Pow2(IntBits - 1)

\* Conversion to int64_t of a mathematical integer (two's complement wrap).
Wrap(n) == ((n - INT64_MIN) % Pow2(IntBits)) + INT64_MIN

\* Let(v, LAMBDA x : body) is body with x standing for v: a local variable
\* that is set once, by a call, and read several times.
Let(v, In(_)) == In(v)

Abs(n) == IF n < 0 THEN -n ELSE n
Sign(n) == IF n < 0 THEN -1 ELSE 1

(***************************************************************************)
(* double.  [k |-> "fin", n, neg]: the number n / DScale, neg telling the  *)
(* sign of a zero; [k |-> "inf"]: n is the sign; [k |-> "nan"].            *)
(***************************************************************************)
DFin(n) == [k |-> "fin", n |-> n, neg |-> n < 0]
DNegZero == [k |-> "fin", n |-> 0, neg |-> TRUE]
DInf(sgn) == [k |-> "inf", n |-> sgn, neg |-> sgn < 0]
DNaN == [k |-> "nan", n |-> 0, neg |-> FALSE]

DSgn(d) == IF d.neg THEN -1 ELSE 1
DZeroSigned(sgn) == IF sgn < 0 THEN DNegZero ELSE DFin(0)

\* p / q (q > 0) rounded to the nearest double, ties to even; sgn is the
\* sign of a zero result.
DRound(p, q, sgn) ==
    LET a == Abs(p)
        f == a \div q
        r == a % q
        m == IF 2 * r > q \/ (2 * r = q /\ f % 2 = 1) THEN f + 1 ELSE f
        n == Sign(p) * m
    IN  IF n = 0 THEN DZeroSigned(sgn) ELSE DFin(n)

\* double(int64_t): an int64_t has more bits than the significand of a
\* double, so the conversion rounds an integer of more than DMant
\* significant bits to the nearest double, ties to even.
ToDouble(i) ==
    LET RECURSIVE Ulp(_)
        Ulp(u) == IF Abs(i) \div u < Pow2(DMant) THEN u ELSE Ulp(2 * u)
        Nearest(u) ==
            LET q == Abs(i) \div u
                r == Abs(i) % u
            IN  IF 2 * r > u \/ (2 * r = u /\ q % 2 = 1) THEN q + 1 ELSE q
    IN  Let(Ulp(1), LAMBDA u : DFin(Sign(i) * Nearest(u) * u * DScale))

DNeg(d) ==
    CASE d.k = "nan" -> DNaN
      [] d.k = "inf" -> DInf(-d.n)
      [] OTHER -> IF d.n = 0 THEN DZeroSigned(-DSgn(d)) ELSE DFin(-d.n)

DAdd(a, b) ==
    CASE a.k = "nan" \/ b.k = "nan" -> DNaN
      [] a.k = "inf" /\ b.k = "inf" -> IF a.n = b.n THEN a ELSE DNaN
      [] a.k = "inf" -> a
      [] b.k = "inf" -> b
      [] OTHER ->
            IF a.n + b.n = 0
            THEN (IF a.neg /\ b.neg THEN DNegZero ELSE DFin(0))
            ELSE DFin(a.n + b.n)


DMul(a, b) ==
    LET sgn == DSgn(a) * DSgn(b)
    IN  CASE a.k = "nan" \/ b.k = "nan" -> DNaN
          [] a.k = "inf" /\ b.k = "fin" /\ b.n = 0 -> DNaN
          [] b.k = "inf" /\ a.k = "fin" /\ a.n = 0 -> DNaN
          [] a.k = "inf" \/ b.k = "inf" -> DInf(sgn)
          [] OTHER -> DRound(a.n * b.n, DScale, sgn)

DDiv(a, b) ==
    LET sgn == DSgn(a) * DSgn(b)
    IN  CASE a.k = "nan" \/ b.k = "nan" -> DNaN
          [] a.k = "inf" /\ b.k = "inf" -> DNaN
          [] a.k = "inf" -> DInf(sgn)
          [] b.k = "inf" -> DZeroSigned(sgn)
          [] b.n = 0 -> IF a.n = 0 THEN DNaN ELSE DInf(sgn)
          [] OTHER -> DRound(Abs(a.n) * DScale * sgn, Abs(b.n), sgn)

\* The IEEE comparisons of two doubles.
DEq(a, b) ==
    /\ a.k # "nan"
    /\ b.k # "nan"
    /\ a.k = b.k
    /\ a.n = b.n

DLt(a, b) ==
    CASE a.k = "nan" \/ b.k = "nan" -> FALSE
      [] a.k = "inf" -> a.n < 0 /\ ~(b.k = "inf" /\ b.n < 0)
      [] b.k = "inf" -> b.n > 0
      [] OTHER -> a.n < b.n


(***************************************************************************)
(* Value: the tag and the payload of the variant.  The payload fields of   *)
(* the other alternatives are held at a fixed default.                     *)
(***************************************************************************)
NoString == <<>>

MkValue(t, b, i, x, s) == [type |-> t, b |-> b, i |-> i, x |-> x, s |-> s]

EMPTY == MkValue("T_UNKNOWN", FALSE, 0, DFin(0), NoString)
BoolValue(b) == MkValue("T_BOOL", b, 0, DFin(0), NoString)
ExactValue(i) == MkValue("T_EXACT", FALSE, i, DFin(0), NoString)
InexactValue(x) == MkValue("T_INEXACT", FALSE, 0, x, NoString)
StringValue(s) == MkValue("T_STRING", FALSE, 0, DFin(0), s)

\* The process has been killed by SIGFPE: no value was returned.
SIGFPE == MkValue("SIGFPE", FALSE, 0, DFin(0), NoString)
Killed(v) == v.type = "SIGFPE"

unknown(v) == v.type = "T_UNKNOWN"
numeric(v) == v.type = "T_EXACT" \/ v.type = "T_INEXACT"
sameType(v1, v2) == v1.type = v2.type

\* Value(BoolOrNone) and Value::operator BoolOrNone
ValueOfBN(bn) ==
    CASE bn = "SIGFPE" -> SIGFPE
      [] bn = "BN_UNKNOWN" -> EMPTY
      [] OTHER -> BoolValue(bn = "BN_TRUE")

BoolOrNone(b) == IF b THEN "BN_TRUE" ELSE "BN_FALSE"

BNOfValue(v) ==
    CASE Killed(v) -> "SIGFPE"
      [] v.type = "T_BOOL" -> BoolOrNone(v.b)
      [] OTHER -> "BN_UNKNOWN"

\* promoteNumeric: the pair after promotion, and whether both are numeric.
promoteNumeric(v1, v2) ==
    IF ~numeric(v1) \/ ~numeric(v2) THEN [ok |-> FALSE, v1 |-> v1, v2 |-> v2]
    ELSE IF sameType(v1, v2) THEN [ok |-> TRUE, v1 |-> v1, v2 |-> v2]
    ELSE IF v1.type = "T_INEXACT"
         THEN [ok |-> TRUE, v1 |-> v1, v2 |-> InexactValue(ToDouble(v2.i))]
         ELSE [ok |-> TRUE, v1 |-> InexactValue(ToDouble(v1.i)), v2 |-> v2]

\* std::variant's == and < on two values holding the same alternative.
PayloadNeq(v1, v2) ==
    CASE v1.type = "T_UNKNOWN" -> FALSE
      [] v1.type = "T_BOOL" -> v1.b # v2.b
      [] v1.type = "T_EXACT" -> v1.i # v2.i
      [] v1.type = "T_INEXACT" -> ~DEq(v1.x, v2.x)
      [] OTHER -> v1.s # v2.s

PayloadLt(v1, v2) ==
    IF v1.type = "T_EXACT" THEN v1.i < v2.i ELSE DLt(v1.x, v2.x)

PayloadLe(v1, v2) ==
    IF v1.type = "T_EXACT" THEN v1.i <= v2.i
    ELSE DLt(v1.x, v2.x) \/ DEq(v1.x, v2.x)

\* bool operator==(Value, Value) and the other five comparisons
OpEq(a, b) ==
    Let(promoteNumeric(a, b), LAMBDA p :
        LET v1 == p.v1
            v2 == p.v2
        IN  IF ~sameType(v1, v2) THEN FALSE
            ELSE CASE v1.type = "T_UNKNOWN" -> TRUE
                   [] v1.type = "T_BOOL" -> v1.b = v2.b
                   [] v1.type = "T_EXACT" -> v1.i = v2.i
                   [] v1.type = "T_INEXACT" -> DEq(v1.x, v2.x)
                   [] OTHER -> v1.s = v2.s)

\* A <> that holds for operands of different types.
OpNeqDifferentTypes(a, b) ==
    LET p == promoteNumeric(a, b)
    IN  IF ~sameType(p.v1, p.v2) THEN TRUE ELSE PayloadNeq(p.v1, p.v2)

OpNeq(a, b) ==
    Let(promoteNumeric(a, b), LAMBDA p :
        IF ~sameType(p.v1, p.v2) THEN FALSE ELSE PayloadNeq(p.v1, p.v2))

OpLs(a, b) ==
    Let(promoteNumeric(a, b), LAMBDA p :
        IF ~p.ok THEN FALSE ELSE PayloadLt(p.v1, p.v2))

OpGr(a, b) ==
    Let(promoteNumeric(a, b), LAMBDA p :
        IF ~p.ok THEN FALSE ELSE PayloadLt(p.v2, p.v1))

OpLseq(a, b) ==
    Let(promoteNumeric(a, b), LAMBDA p :
        IF ~p.ok THEN FALSE ELSE PayloadLe(p.v1, p.v2))

OpGreq(a, b) ==
    Let(promoteNumeric(a, b), LAMBDA p :
        IF ~p.ok THEN FALSE ELSE PayloadLe(p.v2, p.v1))

(***************************************************************************)
(* Arithmetic.  Signed overflow of + - * and of unary - is undefined       *)
(* behaviour that every build resolves by wrapping.  x / 0 and             *)
(* INT64_MIN / -1 are undefined behaviour too: the divide instruction      *)
(* faults (SIGFPE) on a build where traps holds, and returns 0,            *)
(* respectively INT64_MIN, where it does not.                              *)
(***************************************************************************)
IntDivide(a, b) ==
    IF b = 0 THEN (IF traps THEN SIGFPE ELSE ExactValue(0))
    ELSE IF a = INT64_MIN /\ b = -1
         THEN (IF traps THEN SIGFPE ELSE ExactValue(INT64_MIN))
         ELSE ExactValue(Sign(a) * Sign(b) * (Abs(a) \div Abs(b)))

OpAdd(a, b) ==
    Let(promoteNumeric(a, b), LAMBDA p :
        IF Killed(a) \/ Killed(b) THEN SIGFPE
        ELSE IF ~p.ok THEN EMPTY
        ELSE IF p.v1.type = "T_EXACT" THEN ExactValue(Wrap(p.v1.i + p.v2.i))
        ELSE InexactValue(DAdd(p.v1.x, p.v2.x)))

OpSub(a, b) ==
    Let(promoteNumeric(a, b), LAMBDA p :
        IF Killed(a) \/ Killed(b) THEN SIGFPE
        ELSE IF ~p.ok THEN EMPTY
        ELSE IF p.v1.type = "T_EXACT" THEN ExactValue(Wrap(p.v1.i - p.v2.i))
        ELSE InexactValue(DAdd(p.v1.x, DNeg(p.v2.x))))

OpMult(a, b) ==
    Let(promoteNumeric(a, b), LAMBDA p :
        IF Killed(a) \/ Killed(b) THEN SIGFPE
        ELSE IF ~p.ok THEN EMPTY
        ELSE IF p.v1.type = "T_EXACT" THEN ExactValue(Wrap(p.v1.i * p.v2.i))
        ELSE InexactValue(DMul(p.v1.x, p.v2.x)))

OpDiv(a, b) ==
    Let(promoteNumeric(a, b), LAMBDA p :
        IF Killed(a) \/ Killed(b) THEN SIGFPE
        ELSE IF ~p.ok THEN EMPTY
        ELSE IF p.v1.type = "T_EXACT" THEN IntDivide(p.v1.i, p.v2.i)
        ELSE InexactValue(DDiv(p.v1.x, p.v2.x)))

\* Value operator-(const Value&)
OpNegate(v) ==
    CASE Killed(v) -> SIGFPE
      [] v.type = "T_EXACT" -> ExactValue(Wrap(-v.i))
      [] v.type = "T_INEXACT" -> InexactValue(DNeg(v.x))
      [] OTHER -> EMPTY


(***************************************************************************)
(* LIKE: the translation of a pattern to a regular expression, and         *)
(* std::regex on what it emits.  std::regex is constructed with its        *)
(* default flags, so the expression is read in the ECMAScript grammar.     *)
(***************************************************************************)
NUL == "NUL"   \* the character with code 0

RECURSIVE toRegexLoop(_, _, _, _, _)
toRegexLoop(s, i, e, doEscape, regex) ==
    IF i > Len(s) THEN regex \o <<"$">>
    ELSE LET c == s[i]
         IN  IF e # NUL /\ c = e
             THEN toRegexLoop(s, i + 1, e, TRUE, regex)
             ELSE toRegexLoop(s, i + 1, e, FALSE,
                    CASE c = "%" ->
                            IF doEscape THEN regex \o <<c>>
                            ELSE regex \o <<".", "*">>
                      [] c = "_" ->
                            IF doEscape THEN regex \o <<c>>
                            ELSE regex \o <<".">>
                      [] c = "]" -> regex \o <<"[", "]", "]">>
                      [] c = "-" -> regex \o <<"[", "-", "]">>
                      [] c \in {"\\", "^", "$", ".", "*", "["} ->
                            regex \o <<"\\", c>>
                      [] OTHER -> regex \o <<c>>)

\* LikeExpression::toRegex; exc names the exception thrown, if any.
toRegex(s, escape) ==
    IF Len(escape) > 1 THEN [exc |-> "logic_error", regex |-> <<>>]
    ELSE [exc |-> "none",
          regex |-> toRegexLoop(s, 1, IF Len(escape) = 1 THEN escape[1] ELSE NUL,
                                FALSE, <<"^">>)]

ReAtom(any, set) == [k |-> "atom", any |-> any, set |-> set, min |-> 1, unb |-> FALSE]
ReAssert(k) == [k |-> k, any |-> FALSE, set |-> {}, min |-> 0, unb |-> FALSE]

\* The position of the first ] after position i, or 0.
RECURSIVE BracketEnd(_, _)
BracketEnd(re, i) ==
    IF i > Len(re) THEN 0
    ELSE IF re[i] = "]" THEN i
    ELSE BracketEnd(re, i + 1)

(***************************************************************************)
(* The std::regex constructor on the grammar toRegex can emit: the         *)
(* assertions ^ and $, identity escapes, the any-character atom, a         *)
(* bracket expression (in ECMAScript a ] right after [ closes it, leaving  *)
(* an empty class), the quantifiers * + ? (each with the optional lazy     *)
(* mark ?), alternation, and ordinary characters, ] and } among them.      *)
(* A ( ) or { on its own is an error; whole groups and intervals are not   *)
(* modelled: no pattern drawn holds one.                                   *)
(* alts are the alternatives read, cur the one being read; atom tells      *)
(* whether a quantifier may follow.                                        *)
(***************************************************************************)
RECURSIVE RegexParse(_, _, _, _, _)
RegexParse(re, i, alts, cur, atom) ==
    IF i > Len(re) THEN [ok |-> TRUE, alts |-> Append(alts, cur)]
    ELSE LET c == re[i]
             lazy == IF i < Len(re) /\ re[i + 1] = "?" THEN 1 ELSE 0
         IN  CASE c = "^" -> RegexParse(re, i + 1, alts, Append(cur, ReAssert("bol")), FALSE)
               [] c = "$" -> RegexParse(re, i + 1, alts, Append(cur, ReAssert("eol")), FALSE)
               [] c = "|" -> RegexParse(re, i + 1, Append(alts, cur), <<>>, FALSE)
               [] c = "." -> RegexParse(re, i + 1, alts, Append(cur, ReAtom(TRUE, {})), TRUE)
               [] c = "\\" ->
                     IF i = Len(re) THEN [ok |-> FALSE, alts |-> <<>>]
                     ELSE RegexParse(re, i + 2, alts,
                                     Append(cur, ReAtom(FALSE, {re[i + 1]})), TRUE)
               [] c = "[" ->
                     LET j == BracketEnd(re, i + 1)
                     IN  IF j = 0 THEN [ok |-> FALSE, alts |-> <<>>]
                         ELSE RegexParse(re, j + 1, alts,
                                Append(cur, ReAtom(FALSE, {re[n] : n \in (i + 1)..(j - 1)})),
                                TRUE)
               [] c \in {"*", "+", "?"} ->
                     IF ~atom THEN [ok |-> FALSE, alts |-> <<>>]
                     ELSE LET t == cur[Len(cur)]
                              min == IF c = "+" THEN 1 ELSE 0
                          IN  RegexParse(re, i + 1 + lazy, alts,
                                [cur EXCEPT ![Len(cur)] =
                                    [t EXCEPT !.min = t.min * min,
                                              !.unb = t.unb \/ c # "?"]],
                                TRUE)
               [] c \in {"(", ")", "{"} -> [ok |-> FALSE, alts |-> <<>>]
               [] OTHER -> RegexParse(re, i + 1, alts, Append(cur, ReAtom(FALSE, {c})), TRUE)

\* Do the terms items[k..] match s[pos..] up to its end?
RECURSIVE MatchFrom(_, _, _, _)
MatchFrom(items, k, s, pos) ==
    IF k > Len(items) THEN pos = Len(s) + 1
    ELSE LET it == items[k]
             left == Len(s) + 1 - pos
         IN  CASE it.k = "bol" -> pos = 1 /\ MatchFrom(items, k + 1, s, pos)
               [] it.k = "eol" -> left = 0 /\ MatchFrom(items, k + 1, s, pos)
               [] OTHER ->
                     \E n \in it.min..(IF it.unb THEN left ELSE 1) :
                        /\ n <= left
                        /\ \A j \in 0..(n - 1) :
                              IF it.any THEN s[pos + j] \notin {"\n", "\r"}
                              ELSE s[pos + j] \in it.set
                        /\ MatchFrom(items, k + 1, s, pos + n)

\* std::regex_match(s, regexBuffer): the whole of s matches an alternative.
regex_match(s, regexBuffer) ==
    \E a \in 1..Len(regexBuffer.alts) : MatchFrom(regexBuffer.alts[a], 1, s, 1)


\* The C interface before any call: no Value allocated, no environment.
\* objects: the Values made by new, in order of allocation, address n the
\* n-th; deletes: how often delete was applied to each address, 0 the
\* address of EMPTY; environment: "none", "live" or "freed"; values:
\* selector_environment_t::values; owned: the handles the caller created
\* and has neither freed nor handed to the environment; got: the handles
\* the caller has been given and that point to an object not yet deleted.
NoHeap ==
    [objects |-> <<>>, deletes |-> [a \in 0..MaxValues |-> 0], environment |-> "none",
     values |-> [var \in {} |-> 0], owned |-> {}, got |-> {}]

\* No nextToken call made yet.  log: what the calls returned, the calls a
\* returnTokens undid taken off its end; atEOS: the last call was a
\* nextToken that returned EOS; repeated: some nextToken call was made in
\* atEOS; calls: the calls made.
NoReads == [log |-> <<>>, atEOS |-> FALSE, repeated |-> FALSE, calls |-> 0]

(***************************************************************************)
(* The expression tree.  A node is a record naming its class.              *)
(***************************************************************************)
NullExpression == [node |-> "null"]   \* a unique_ptr holding no node

Identifier(i) == [node |-> "Identifier", identifier |-> i]
Literal(v) == [node |-> "Literal", value |-> v]
StringLiteral(v) == [node |-> "StringLiteral", value |-> v]
ComparisonExpression(o, e, e_) ==
    [node |-> "ComparisonExpression", op |-> o, e1 |-> e, e2 |-> e_]
OrExpression(e, e_) == [node |-> "OrExpression", e1 |-> e, e2 |-> e_]
AndExpression(e, e_) == [node |-> "AndExpression", e1 |-> e, e2 |-> e_]
UnaryBooleanExpression(o, e) ==
    [node |-> "UnaryBooleanExpression", op |-> o, e1 |-> e]
BetweenExpression(e_, l_, u_) ==
    [node |-> "BetweenExpression", e |-> e_, l |-> l_, u |-> u_]
InExpression(e_, l_) == [node |-> "InExpression", e |-> e_, l |-> l_]
NotInExpression(e_, l_) == [node |-> "NotInExpression", e |-> e_, l |-> l_]
ArithmeticExpression(o, e, e_) ==
    [node |-> "ArithmeticExpression", op |-> o, e1 |-> e, e2 |-> e_]
UnaryArithExpression(o, e) ==
    [node |-> "UnaryArithExpression", op |-> o, e1 |-> e]

\* The LikeExpression constructor; exc names the exception it throws.
LikeExpression(e_, like, escape) ==
    Let(toRegex(like, escape), LAMBDA r :
        IF r.exc # "none" THEN [exc |-> r.exc, e |-> NullExpression]
        ELSE Let(RegexParse(r.regex, 1, <<>>, <<>>, FALSE), LAMBDA b :
            IF ~b.ok THEN [exc |-> "regex_error", e |-> NullExpression]
            ELSE [exc |-> "none",
                  e |-> [node |-> "LikeExpression", e |-> e_,
                         reString |-> r.regex, regexBuffer |-> b]]))

\* Env::value: the value bound to an identifier, EMPTY when there is none.
EnvValue(environment, identifier) ==
    IF identifier \in DOMAIN environment THEN environment[identifier] ELSE EMPTY

\* The six comparison operators and the four arithmetic operators, by name.
CompareValues(o, a, b) ==
    CASE o = "=" -> OpEq(a, b)
      [] o = "<>" -> OpNeq(a, b)
      [] o = "<" -> OpLs(a, b)
      [] o = ">" -> OpGr(a, b)
      [] o = "<=" -> OpLseq(a, b)
      [] OTHER -> OpGreq(a, b)

ArithValues(o, a, b) ==
    CASE o = "+" -> OpAdd(a, b)
      [] o = "-" -> OpSub(a, b)
      [] o = "*" -> OpMult(a, b)
      [] OTHER -> OpDiv(a, b)

RECURSIVE eval(_, _)
RECURSIVE eval_bool(_, _)
RECURSIVE InLoop(_, _, _, _, _)
RECURSIVE NotInLoop(_, _, _, _, _)

\* booleval: the right operand is evaluated only when the left one is known.
booleval(o, e1, e2, environment) ==
    Let(eval(e1, environment), LAMBDA v1 :
        IF Killed(v1) THEN "SIGFPE"
        ELSE IF unknown(v1) THEN "BN_UNKNOWN"
        ELSE Let(eval(e2, environment), LAMBDA v2 :
            IF Killed(v2) THEN "SIGFPE"
            ELSE IF unknown(v2) THEN "BN_UNKNOWN"
            ELSE BoolOrNone(CompareValues(o, v1, v2))))

\* OrExpression::eval_bool
OrEvalBool(e, environment) ==
    Let(eval_bool(e.e1, environment), LAMBDA bn1 :
        IF bn1 = "SIGFPE" THEN "SIGFPE"
        ELSE IF bn1 = "BN_TRUE" THEN "BN_TRUE"
        ELSE Let(eval_bool(e.e2, environment), LAMBDA bn2 :
            IF bn2 = "SIGFPE" THEN "SIGFPE"
            ELSE IF bn2 = "BN_TRUE" THEN "BN_TRUE"
            ELSE IF bn1 = "BN_FALSE" /\ bn2 = "BN_FALSE" THEN "BN_FALSE"
            ELSE "BN_UNKNOWN"))

\* An AND that gives up on an UNKNOWN left operand without evaluating the
\* right one.
AndEvalBoolLeftFirst(e, environment) ==
    LET bn1 == eval_bool(e.e1, environment)
        bn2 == eval_bool(e.e2, environment)
    IN  IF bn1 \in {"SIGFPE", "BN_FALSE", "BN_UNKNOWN"} THEN bn1
        ELSE bn2

\* AndExpression::eval_bool
AndEvalBool(e, environment) ==
    Let(eval_bool(e.e1, environment), LAMBDA bn1 :
        IF bn1 = "SIGFPE" THEN "SIGFPE"
        ELSE IF bn1 = "BN_FALSE" THEN "BN_FALSE"
        ELSE Let(eval_bool(e.e2, environment), LAMBDA bn2 :
            IF bn2 = "SIGFPE" THEN "SIGFPE"
            ELSE IF bn2 = "BN_FALSE" THEN "BN_FALSE"
            ELSE IF bn1 = "BN_TRUE" /\ bn2 = "BN_TRUE" THEN "BN_TRUE"
            ELSE "BN_UNKNOWN"))

\* A NOT of two values: whatever is not TRUE is negated to TRUE.
UnaryBooleanEvalTwoValued(e, environment) ==
    IF e.op = "NOT"
    THEN LET bn == eval_bool(e.e1, environment)
         IN  IF bn = "SIGFPE" THEN bn ELSE BoolOrNone(~(bn = "BN_TRUE"))
    ELSE LET v == eval(e.e1, environment)
         IN  IF Killed(v) THEN "SIGFPE"
             ELSE IF e.op = "IsNull" THEN BoolOrNone(unknown(v))
             ELSE BoolOrNone(~unknown(v))

\* IsNull::eval, IsNonNull::eval and Not::eval
UnaryBooleanEval(e, environment) ==
    IF e.op = "NOT"
    THEN Let(eval_bool(e.e1, environment), LAMBDA bn :
             IF bn = "SIGFPE" \/ bn = "BN_UNKNOWN" THEN bn
             ELSE BoolOrNone(~(bn = "BN_TRUE")))
    ELSE Let(eval(e.e1, environment), LAMBDA v :
             IF Killed(v) THEN "SIGFPE"
             ELSE IF e.op = "IsNull" THEN BoolOrNone(unknown(v))
             ELSE BoolOrNone(~unknown(v)))

\* LikeExpression::eval_bool
LikeEvalBool(e, environment) ==
    Let(eval(e.e, environment), LAMBDA v :
        IF Killed(v) THEN "SIGFPE"
        ELSE IF v.type # "T_STRING" THEN "BN_UNKNOWN"
        ELSE BoolOrNone(regex_match(v.s, e.regexBuffer)))

\* An exclusive range test.
BetweenEvalBoolExclusive(e, environment) ==
    LET ve == eval(e.e, environment)
        vl == eval(e.l, environment)
        vu == eval(e.u, environment)
    IN  IF unknown(ve) \/ unknown(vl) \/ unknown(vu) THEN "BN_UNKNOWN"
        ELSE BoolOrNone(OpGr(ve, vl) /\ OpLs(ve, vu))

\* BetweenExpression::eval_bool
BetweenEvalBool(e, environment) ==
    Let(eval(e.e, environment), LAMBDA ve :
    Let(eval(e.l, environment), LAMBDA vl :
    Let(eval(e.u, environment), LAMBDA vu :
        IF Killed(ve) \/ Killed(vl) \/ Killed(vu) THEN "SIGFPE"
        ELSE IF unknown(ve) \/ unknown(vl) \/ unknown(vu) THEN "BN_UNKNOWN"
        ELSE BoolOrNone(OpGreq(ve, vl) /\ OpLseq(ve, vu)))))

\* An IN loop that stops at the first Unknown element.
InLoopUnknownEnds(ve, l, i, r, environment) ==
    IF i > Len(l) THEN r
    ELSE LET li == eval(l[i], environment)
         IN  IF Killed(li) THEN "SIGFPE"
             ELSE IF unknown(li) THEN "BN_UNKNOWN"
             ELSE IF OpEq(ve, li) THEN "BN_TRUE"
             ELSE InLoop(ve, l, i + 1, r, environment)

\* An IN loop that forgets an Unknown element at the next known one.
InLoopForgets(ve, l, i, r, environment) ==
    IF i > Len(l) THEN r
    ELSE LET li == eval(l[i], environment)
         IN  IF Killed(li) THEN "SIGFPE"
             ELSE IF unknown(li) THEN InLoop(ve, l, i + 1, "BN_UNKNOWN", environment)
             ELSE IF OpEq(ve, li) THEN "BN_TRUE"
             ELSE InLoop(ve, l, i + 1, "BN_FALSE", environment)

\* The loop of InExpression::eval_bool from element i on, r as it stands.
InLoop(ve, l, i, r, environment) ==
    IF i > Len(l) THEN r
    ELSE Let(eval(l[i], environment), LAMBDA li :
             IF Killed(li) THEN "SIGFPE"
             ELSE IF unknown(li) THEN InLoop(ve, l, i + 1, "BN_UNKNOWN", environment)
             ELSE IF OpEq(ve, li) THEN "BN_TRUE"
             ELSE InLoop(ve, l, i + 1, r, environment))

\* InExpression::eval_bool
InEvalBool(e, environment) ==
    Let(eval(e.e, environment), LAMBDA ve :
        IF Killed(ve) THEN "SIGFPE"
        ELSE IF unknown(ve) THEN "BN_UNKNOWN"
        ELSE InLoop(ve, e.l, 1, "BN_FALSE", environment))

\* A NOT IN loop whose incompatibility rule overrides an Unknown seen before.
NotInLoopOverrides(ve, l, i, r, environment) ==
    IF i > Len(l) THEN r
    ELSE LET li == eval(l[i], environment)
         IN  IF Killed(li) THEN "SIGFPE"
             ELSE IF unknown(li) THEN NotInLoop(ve, l, i + 1, "BN_UNKNOWN", environment)
             ELSE IF ~sameType(ve, li) /\ ~(numeric(ve) /\ numeric(li))
                  THEN NotInLoop(ve, l, i + 1, "BN_FALSE", environment)
             ELSE IF OpEq(ve, li) THEN "BN_FALSE"
             ELSE NotInLoop(ve, l, i + 1, r, environment)

\* The loop of NotInExpression::eval_bool from element i on, r as it stands.
NotInLoop(ve, l, i, r, environment) ==
    IF i > Len(l) THEN r
    ELSE Let(eval(l[i], environment), LAMBDA li :
             IF Killed(li) THEN "SIGFPE"
             ELSE IF unknown(li) THEN NotInLoop(ve, l, i + 1, "BN_UNKNOWN", environment)
             ELSE IF r # "BN_UNKNOWN" /\ ~sameType(ve, li) /\ ~(numeric(ve) /\ numeric(li))
                  THEN NotInLoop(ve, l, i + 1, "BN_FALSE", environment)
             ELSE IF OpEq(ve, li) THEN "BN_FALSE"
             ELSE NotInLoop(ve, l, i + 1, r, environment))

\* A NOT IN that is UNKNOWN where the loop found an incompatible element
\* and nothing else.
NotInEvalBoolUnknown(e, environment) ==
    LET ve == eval(e.e, environment)
        r == NotInLoop(ve, e.l, 1, "BN_TRUE", environment)
        equal == \E i \in 1..Len(e.l) : OpEq(ve, eval(e.l[i], environment))
    IN  IF Killed(ve) THEN "SIGFPE"
        ELSE IF unknown(ve) THEN "BN_UNKNOWN"
        ELSE IF r = "BN_FALSE" /\ ~equal THEN "BN_UNKNOWN"
        ELSE r

\* NotInExpression::eval_bool
NotInEvalBool(e, environment) ==
    Let(eval(e.e, environment), LAMBDA ve :
        IF Killed(ve) THEN "SIGFPE"
        ELSE IF unknown(ve) THEN "BN_UNKNOWN"
        ELSE NotInLoop(ve, e.l, 1, "BN_TRUE", environment))

BoolNodes ==
    {"ComparisonExpression", "OrExpression", "AndExpression",
     "UnaryBooleanExpression", "LikeExpression", "BetweenExpression",
     "InExpression", "NotInExpression"}

\* The virtual eval_bool: a BoolExpression's own, else ValueExpression's.
eval_bool(e, environment) ==
    CASE e.node = "ComparisonExpression" -> booleval(e.op, e.e1, e.e2, environment)
      [] e.node = "OrExpression" -> OrEvalBool(e, environment)
      [] e.node = "AndExpression" -> AndEvalBool(e, environment)
      [] e.node = "UnaryBooleanExpression" -> UnaryBooleanEval(e, environment)
      [] e.node = "LikeExpression" -> LikeEvalBool(e, environment)
      [] e.node = "BetweenExpression" -> BetweenEvalBool(e, environment)
      [] e.node = "InExpression" -> InEvalBool(e, environment)
      [] e.node = "NotInExpression" -> NotInEvalBool(e, environment)
      [] OTHER -> BNOfValue(eval(e, environment))

\* The virtual eval: a BoolExpression's is Value(eval_bool(env)).
eval(e, environment) ==
    CASE e.node = "Literal" -> e.value
      [] e.node = "StringLiteral" -> StringValue(e.value)
      [] e.node = "Identifier" -> EnvValue(environment, e.identifier)
      [] e.node = "ArithmeticExpression" ->
            ArithValues(e.op, eval(e.e1, environment), eval(e.e2, environment))
      [] e.node = "UnaryArithExpression" -> OpNegate(eval(e.e1, environment))
      [] OTHER -> ValueOfBN(eval_bool(e, environment))

\* ConcreteExpression: the object make_selector returns, holding the root.
ConcreteExpression(be) == [node |-> "ConcreteExpression", expression |-> be]

\* ValueExpression::eval_bool's local v, for a root that does not override
\* eval_bool; "none" for one that does.
RootValue(b, environment) ==
    IF b.expression = NullExpression \/ b.expression.node \in BoolNodes
    THEN [type |-> "none"]
    ELSE eval(b.expression, environment)

\* ConcreteExpression::eval's local bn.  The call through a root that is
\* no object faults.
RootBoolOrNone(b, environment) ==
    IF b.expression = NullExpression THEN "SIGSEGV"
    ELSE eval_bool(b.expression, environment)

\* A top-level evaluation that takes an UNKNOWN root for true.
ConcreteEvalUnknownTrue(b, environment) ==
    LET bn_ == RootBoolOrNone(b, environment)
    IN  IF bn_ \in {"SIGFPE", "SIGSEGV"} THEN bn_
        ELSE IF bn_ = "BN_FALSE" THEN "false"
        ELSE "true"

\* ConcreteExpression::eval, the top-level evaluation: what the caller gets.
ConcreteEval(b, environment) ==
    Let(RootBoolOrNone(b, environment), LAMBDA bn_ :
        IF bn_ \in {"SIGFPE", "SIGSEGV"} THEN bn_
        ELSE IF bn_ = "BN_TRUE" THEN "true"
        ELSE "false")

(***************************************************************************)
(* The lexer.                                                              *)
(***************************************************************************)
\* The classes of <cctype> in the C locale (the vertical tab, a space to
\* isspace, is in no text of the model).
isdigit(c) == c \in {"0", "1", "2", "3", "4", "5", "6", "7", "8", "9"}
isxdigit(c) ==
    isdigit(c) \/ c \in {"a", "b", "c", "d", "e", "f", "A", "B", "C", "D", "E", "F"}
isspace(c) == c \in {" ", "\t", "\n", "\r", "\f"}

UpperString == <<"A", "B", "C", "D", "E", "F", "G", "H", "I", "J", "K", "L", "M",
                 "N", "O", "P", "Q", "R", "S", "T", "U", "V", "W", "X", "Y", "Z">>
LowerString == <<"a", "b", "c", "d", "e", "f", "g", "h", "i", "j", "k", "l", "m",
                 "n", "o", "p", "q", "r", "s", "t", "u", "v", "w", "x", "y", "z">>

isalpha(c) == \E n \in 1..Len(UpperString) : c \in {UpperString[n], LowerString[n]}

tolower(c) ==
    Let(UpperString, LAMBDA upper :
        IF \E n \in DOMAIN upper : upper[n] = c
        THEN LowerString[CHOOSE n \in DOMAIN upper : upper[n] = c]
        ELSE c)

Token(t, v) == [type |-> t, val |-> v]

\* Token(): the type is left uninitialised.
DefaultToken == Token("indeterminate", <<>>)

\* The character at index i of a C string: NUL past its end.
CharAt(w, i) == IF i <= Len(w) THEN w[i] ELSE NUL

\* The order of the characters a lexeme of the IDENTIFIER state can hold
\* (after tolower), NUL first: their order as chars.
CharRank(c) ==
    Let(<<NUL, "$", ".", "0", "1", "2", "3", "4", "5", "6", "7", "8", "9", "_">>
        \o LowerString, LAMBDA order :
        CHOOSE n \in DOMAIN order : order[n] = c)

\* caseless(s1, s2): is s1 before s2, ignoring case?
RECURSIVE caseless(_, _, _)
caseless(s1, s2, i) ==
    Let(CharRank(tolower(CharAt(s1, i))), LAMBDA ls1 :
    Let(CharRank(tolower(CharAt(s2, i))), LAMBDA ls2 :
        IF ls1 < ls2 THEN TRUE
        ELSE IF ls1 > ls2 THEN FALSE
        ELSE IF CharAt(s1, i) # NUL /\ CharAt(s2, i) # NUL THEN caseless(s1, s2, i + 1)
        ELSE FALSE))

\* The table of tokeniseReservedWord, in its order.
reserved ==
    << [word |-> <<"a", "n", "d">>, type |-> "T_AND"],
       [word |-> <<"b", "e", "t", "w", "e", "e", "n">>, type |-> "T_BETWEEN"],
       [word |-> <<"e", "s", "c", "a", "p", "e">>, type |-> "T_ESCAPE"],
       [word |-> <<"f", "a", "l", "s", "e">>, type |-> "T_FALSE"],
       [word |-> <<"i", "n">>, type |-> "T_IN"],
       [word |-> <<"i", "s">>, type |-> "T_IS"],
       [word |-> <<"l", "i", "k", "e">>, type |-> "T_LIKE"],
       [word |-> <<"n", "o", "t">>, type |-> "T_NOT"],
       [word |-> <<"n", "u", "l", "l">>, type |-> "T_NULL"],
       [word |-> <<"o", "r">>, type |-> "T_OR"],
       [word |-> <<"t", "r", "u", "e">>, type |-> "T_TRUE"] >>

\* A tokeniseReservedWord that knows the words in lower case only.
tokeniseReservedWordLower(tok) ==
    IF tok.type # "T_IDENTIFIER" THEN tok
    ELSE LET entry == {n \in DOMAIN reserved : reserved[n].word = tok.val}
         IN  IF entry = {} THEN tok
             ELSE [tok EXCEPT !.type = reserved[CHOOSE n \in entry : TRUE].type]

\* tokeniseReservedWord: the token retyped when its lexeme is in the table.
\* std::equal_range on the sorted table gives the entries neither before
\* nor after the lexeme.
tokeniseReservedWord(tok) ==
    IF tok.type # "T_IDENTIFIER" THEN tok
    ELSE Let(reserved, LAMBDA table :
         Let({n \in DOMAIN table : /\ ~caseless(table[n].word, tok.val, 1)
                                   /\ ~caseless(tok.val, table[n].word, 1)},
             LAMBDA entry :
                IF entry = {} THEN tok
                ELSE [tok EXCEPT !.type =
                        table[CHOOSE n \in entry : \A m \in entry : n <= m].type]))

\* std::find(from, e, quoteChar): the index of the first quote at or after
\* index from, Len(sv) + 1 when there is none.
RECURSIVE FindQuote(_, _, _)
FindQuote(sv, from, quoteChar) ==
    IF from > Len(sv) THEN Len(sv) + 1
    ELSE IF sv[from] = quoteChar THEN from
    ELSE FindQuote(sv, from + 1, quoteChar)

SubString(sv, from, to) == [n \in 1..(to - from + 1) |-> sv[from + n - 1]]
RemovePrefix(sv, n) == SubString(sv, n + 1, Len(sv))

\* The loop of processString, q pointing past a closing quote.
RECURSIVE processStringLoop(_, _, _, _, _)
processStringLoop(sv, q, content, quoteChar, type) ==
    IF q <= Len(sv) /\ sv[q] = quoteChar
    THEN LET q2 == FindQuote(sv, q + 1, quoteChar)
         IN  IF q2 = Len(sv) + 1
             THEN [ok |-> FALSE, tok |-> DefaultToken, sv |-> sv]
             ELSE processStringLoop(sv, q2 + 1, content \o SubString(sv, q, q2 - 1),
                                    quoteChar, type)
    ELSE [ok |-> TRUE, tok |-> Token(type, content), sv |-> RemovePrefix(sv, q - 1)]

\* processString: sv starts with the opening quote.
processString(sv, quoteChar, type) ==
    LET q == FindQuote(sv, 2, quoteChar)
    IN  IF q = Len(sv) + 1 THEN [ok |-> FALSE, tok |-> DefaultToken, sv |-> sv]
        ELSE processStringLoop(sv, q + 1, SubString(sv, 2, q - 1), quoteChar, type)

isIdentifierStart(c) == isalpha(c) \/ c = "_" \/ c = "$"
isIdentifierPart(c) == isalpha(c) \/ isdigit(c) \/ c = "_" \/ c = "$" \/ c = "."

SingleCharTokens ==
    [c \in {"(", ")", ",", "+", "-", "*", "/", "="} |->
        CASE c = "(" -> "T_LPAREN"
          [] c = ")" -> "T_RPAREN"
          [] c = "," -> "T_COMMA"
          [] c = "+" -> "T_PLUS"
          [] c = "-" -> "T_MINUS"
          [] c = "*" -> "T_MULT"
          [] c = "/" -> "T_DIV"
          [] OTHER -> "T_EQUAL"]

(***************************************************************************)
(* tokenise: the state machine.  sv is the string view as it stands, n     *)
(* the distance of t from its beginning.  The result gives the call's      *)
(* return value, tok as left by the call (where ok) and sv as left by it.  *)
(***************************************************************************)
RECURSIVE tokeniseIn(_, _, _, _)
tokeniseIn(state, sv, n, tokType) ==
    LET atEnd == n = Len(sv)
        c == IF atEnd THEN NUL ELSE sv[n + 1]
        Go(st) == tokeniseIn(st, sv, n, tokType)
        Inc(st) == tokeniseIn(st, sv, n + 1, tokType)
        AcceptInc(t) == tokeniseIn("ACCEPT_INC", sv, n, t)
        AcceptNoInc(t) == tokeniseIn("ACCEPT_NOINC", sv, n, t)
    IN  CASE state = "START" ->
               IF atEnd THEN [ok |-> TRUE, tok |-> Token("T_EOS", <<"<", "E", "N", "D", ">">>), sv |-> sv]
               ELSE IF isspace(c) THEN tokeniseIn("START", RemovePrefix(sv, 1), n, tokType)
               ELSE IF c \in DOMAIN SingleCharTokens THEN AcceptInc(SingleCharTokens[c])
               ELSE IF c = "<"
                    THEN IF n + 1 = Len(sv) \/ (sv[n + 2] # ">" /\ sv[n + 2] # "=")
                         THEN tokeniseIn("ACCEPT_NOINC", sv, n + 1, "T_LESS")
                         ELSE tokeniseIn("ACCEPT_INC", sv, n + 1,
                                         IF sv[n + 2] = ">" THEN "T_NEQ" ELSE "T_LSEQ")
               ELSE IF c = ">"
                    THEN IF n + 1 = Len(sv) \/ sv[n + 2] # "="
                         THEN tokeniseIn("ACCEPT_NOINC", sv, n + 1, "T_GRT")
                         ELSE tokeniseIn("ACCEPT_INC", sv, n + 1, "T_GREQ")
               ELSE IF isIdentifierStart(c) THEN Inc("IDENTIFIER")
               ELSE IF c = "'" THEN processString(sv, "'", "T_STRING")
               ELSE IF c = "\"" THEN processString(sv, "\"", "T_IDENTIFIER")
               ELSE IF c = "0" THEN Inc("ZERO")
               ELSE IF isdigit(c) THEN Inc("DIGIT")
               ELSE IF c = "." THEN Inc("DECIMAL_START")
               ELSE Go("REJECT")
          [] state = "IDENTIFIER" ->
               IF atEnd THEN Go("ACCEPT_IDENTIFIER")
               ELSE IF isIdentifierPart(c) THEN Inc("IDENTIFIER")
               ELSE Go("ACCEPT_IDENTIFIER")
          [] state = "DECIMAL_START" ->
               IF atEnd THEN Go("REJECT")
               ELSE IF isdigit(c) THEN Inc("DECIMAL")
               ELSE Go("REJECT")
          [] state = "EXPONENT_SIGN" ->
               IF atEnd THEN Go("REJECT")
               ELSE IF c = "-" \/ c = "+" THEN Inc("EXPONENT_START")
               ELSE IF isdigit(c) THEN Inc("EXPONENT")
               ELSE Go("REJECT")
          [] state = "EXPONENT_START" ->
               IF atEnd THEN Go("REJECT")
               ELSE IF isdigit(c) THEN Inc("EXPONENT")
               ELSE Go("REJECT")
          [] state = "ZERO" ->
               IF atEnd THEN AcceptNoInc("T_NUMERIC_EXACT")
               ELSE IF c = "." THEN Inc("DECIMAL")
               ELSE IF c = "x" \/ c = "X" THEN Inc("HEXDIGIT_START")
               ELSE IF c = "b" \/ c = "B" THEN Inc("BINDIGIT_START")
               ELSE Go("OCTDIGIT")
          [] state = "HEXDIGIT_START" ->
               IF atEnd THEN Go("REJECT")
               ELSE IF isxdigit(c) THEN Inc("HEXDIGIT")
               ELSE Go("REJECT")
          [] state = "HEXDIGIT" ->
               IF atEnd THEN AcceptNoInc("T_NUMERIC_EXACT")
               ELSE IF c = "l" \/ c = "L" THEN AcceptInc("T_NUMERIC_EXACT")
               ELSE IF isxdigit(c) \/ c = "_" THEN Inc("HEXDIGIT")
               ELSE IF c = "p" \/ c = "P" THEN Inc("EXPONENT_SIGN")
               ELSE AcceptNoInc("T_NUMERIC_EXACT")
          [] state = "BINDIGIT_START" ->
               IF atEnd THEN Go("REJECT")
               ELSE IF c = "0" \/ c = "1" THEN Inc("BINDIGIT")
               ELSE Go("REJECT")
          [] state = "BINDIGIT" ->
               IF atEnd THEN AcceptNoInc("T_NUMERIC_EXACT")
               ELSE IF c = "l" \/ c = "L" THEN AcceptInc("T_NUMERIC_EXACT")
               ELSE IF c = "0" \/ c = "1" \/ c = "_" THEN Inc("BINDIGIT")
               ELSE AcceptNoInc("T_NUMERIC_EXACT")
          [] state = "OCTDIGIT" ->
               IF atEnd THEN AcceptNoInc("T_NUMERIC_EXACT")
               ELSE IF c = "l" \/ c = "L" THEN AcceptInc("T_NUMERIC_EXACT")
               ELSE IF (isdigit(c) /\ c \notin {"8", "9"}) \/ c = "_" THEN Inc("OCTDIGIT")
               ELSE AcceptNoInc("T_NUMERIC_EXACT")
          [] state = "DIGIT" ->
               IF atEnd THEN AcceptNoInc("T_NUMERIC_EXACT")
               ELSE IF c = "l" \/ c = "L" THEN AcceptInc("T_NUMERIC_EXACT")
               ELSE IF c \in {"f", "F", "d", "D"} THEN AcceptInc("T_NUMERIC_APPROX")
               ELSE IF isdigit(c) \/ c = "_" THEN Inc("DIGIT")
               ELSE IF c = "." THEN Inc("DECIMAL")
               ELSE IF c = "e" \/ c = "E" THEN Inc("EXPONENT_SIGN")
               ELSE AcceptNoInc("T_NUMERIC_EXACT")
          [] state = "DECIMAL" ->
               IF atEnd THEN AcceptNoInc("T_NUMERIC_APPROX")
               ELSE IF isdigit(c) \/ c = "_" THEN Inc("DECIMAL")
               ELSE IF c = "e" \/ c = "E" THEN Inc("EXPONENT_SIGN")
               ELSE IF c \in {"f", "F", "d", "D"} THEN AcceptInc("T_NUMERIC_APPROX")
               ELSE AcceptNoInc("T_NUMERIC_APPROX")
          [] state = "EXPONENT" ->
               IF atEnd THEN AcceptNoInc("T_NUMERIC_APPROX")
               ELSE IF isdigit(c) THEN Inc("EXPONENT")
               ELSE IF c \in {"f", "F", "d", "D"} THEN AcceptInc("T_NUMERIC_APPROX")
               ELSE AcceptNoInc("T_NUMERIC_APPROX")
          [] state = "ACCEPT_INC" -> tokeniseIn("ACCEPT_NOINC", sv, n + 1, tokType)
          [] state = "ACCEPT_NOINC" ->
               [ok |-> TRUE, tok |-> Token(tokType, SubString(sv, 1, n)),
                sv |-> RemovePrefix(sv, n)]
          [] state = "ACCEPT_IDENTIFIER" ->
               [ok |-> TRUE,
                tok |-> tokeniseReservedWord(Token("T_IDENTIFIER", SubString(sv, 1, n))),
                sv |-> RemovePrefix(sv, n)]
          [] OTHER -> [ok |-> FALSE, tok |-> DefaultToken, sv |-> sv]

\* A tokenise that leaves a < it has lexed in the input.
tokenisePeeksLess(sv) ==
    LET r == tokeniseIn("START", sv, 0, "T_EOS")
    IN  IF r.ok /\ r.tok.type = "T_LESS" THEN [r EXCEPT !.sv = sv] ELSE r

\* tokenise: the state machine from START, nothing of the view accepted.
tokenise(sv) == tokeniseIn("START", sv, 0, "T_EOS")


(***************************************************************************)
(* Tokeniser: the buffer of tokens read so far, the read position tokp     *)
(* and the input left to lex.                                              *)
(***************************************************************************)
Tokeniser(input0) == [tokens |-> <<>>, tokp |-> 0, input |-> input0, aborted |-> FALSE]

\* Tokeniser::nextToken.  exc: a TokenException was thrown.
nextToken(tk) ==
    IF Len(tk.tokens) > tk.tokp
    THEN [exc |-> FALSE, tok |-> tk.tokens[tk.tokp + 1],
          tk |-> [tk EXCEPT !.tokp = tk.tokp + 1]]
    ELSE IF tk.tokp > 0 /\ tk.tokens[tk.tokp].type = "T_EOS"
    THEN [exc |-> FALSE, tok |-> tk.tokens[tk.tokp], tk |-> tk]
    ELSE Let(tokenise(tk.input), LAMBDA r :
             [exc |-> ~r.ok, tok |-> r.tok,
              tk |-> [tk EXCEPT !.tokens = Append(tk.tokens, r.tok),
                                !.tokp = tk.tokp + 1,
                                !.input = r.sv]])

\* A returnTokens that goes back one token whatever n is.
returnTokensOne(tk, n) ==
    IF n <= tk.tokp THEN [tk EXCEPT !.tokp = tk.tokp - 1] ELSE [tk EXCEPT !.aborted = TRUE]

\* Tokeniser::returnTokens.  The assertion aborts the program when n > tokp:
\* aborted records that it did, and nothing that follows is of the program.
returnTokens(tk, n) ==
    IF n <= tk.tokp THEN [tk EXCEPT !.tokp = tk.tokp - n] ELSE [tk EXCEPT !.aborted = TRUE]

\* Tokeniser::remaining
remaining(tk) == tk.input

(***************************************************************************)
(* Numeric literals.                                                       *)
(***************************************************************************)
UINT64_MAX == Pow2(IntBits) - 1

\* The value of a digit character, 99 for a character that is no digit.
DigitValue(c) ==
    Let(<<"0", "1", "2", "3", "4", "5", "6", "7", "8", "9", "a", "b", "c", "d", "e", "f">>,
        LAMBDA digits :
        Let(tolower(c), LAMBDA lc :
            IF \E n \in DOMAIN digits : digits[n] = lc
            THEN (CHOOSE n \in DOMAIN digits : digits[n] = lc) - 1
            ELSE 99))

\* std::remove_copy(..., '_')
RemoveUnderscores(v) == SelectSeq(v, LAMBDA c : c # "_")

\* strtoull(s, 0, base) for a string that starts with a digit: the digits
\* of the base are read up to the first other character; a value above
\* the largest uint64_t sets errno and yields that largest value.
RECURSIVE strtoullLoop(_, _, _, _, _)
strtoullLoop(s, i, base, value, erange) ==
    Let(DigitValue(CharAt(s, i)), LAMBDA d :
        IF d >= base
        THEN [value |-> IF erange THEN UINT64_MAX ELSE value, errno |-> erange]
        ELSE IF erange \/ value * base + d > UINT64_MAX
             THEN strtoullLoop(s, i + 1, base, 0, TRUE)
             ELSE strtoullLoop(s, i + 1, base, value * base + d, FALSE))

strtoull(s, base) ==
    LET b == IF base = 0
             THEN (IF CharAt(s, 1) = "0"
                   THEN (IF CharAt(s, 2) \in {"x", "X"} THEN 16 ELSE 8)
                   ELSE 10)
             ELSE base
        from == IF b = 16 /\ CharAt(s, 1) = "0" /\ CharAt(s, 2) \in {"x", "X"}
                   /\ DigitValue(CharAt(s, 3)) < 16
                THEN 3 ELSE 1
    IN  strtoullLoop(s, from, b, 0, FALSE)

\* Parse::parseExactNumeric: the Literal, or no expression and the error.
parseExactNumeric(token, negate, err) ==
    LET s0 == RemoveUnderscores(token.val)
        prefixed == CharAt(s0, 2) \in {"b", "B", "x", "X"}
        s == IF prefixed THEN RemovePrefix(s0, 2) ELSE s0
        base0 == IF CharAt(s0, 2) \in {"b", "B"} THEN 2
                 ELSE IF CharAt(s0, 2) \in {"x", "X"} THEN 16
                 ELSE 0
        base == IF CharAt(s, 1) = "0" THEN 8 ELSE base0
    IN  Let(strtoull(s, base), LAMBDA r :
            IF ~r.errno /\ (base # 0 \/ r.value <= INT64_MAX)
            THEN [e |-> Literal(ExactValue(IF negate THEN Wrap(-Wrap(r.value))
                                           ELSE Wrap(r.value))),
                  error |-> err]
            ELSE IF negate /\ r.value = INT64_MAX + 1
            THEN [e |-> Literal(ExactValue(INT64_MIN)), error |-> err]
            ELSE [e |-> NullExpression, error |-> "integer literal too big"])

RECURSIVE Pow(_, _)
Pow(b, n) == IF n = 0 THEN 1 ELSE b * Pow(b, n - 1)

\* The digits of a base read from index i: their value, their number and
\* the index after them.
RECURSIVE ReadDigits(_, _, _, _, _)
ReadDigits(s, i, base, value, count) ==
    Let(DigitValue(CharAt(s, i)), LAMBDA d :
        IF d >= base
        THEN [value |-> value, count |-> count, next |-> i]
        ELSE ReadDigits(s, i + 1, base, value * base + d, count + 1))

\* strtod(s, 0) for the lexemes of the lexer: decimal digits with an
\* optional fraction and exponent, or a 0x mantissa with a p exponent; the
\* conversion stops at the first character that does not continue the
\* number.  The result is the nearest double.
strtod(s) ==
    LET hex == CharAt(s, 1) = "0" /\ CharAt(s, 2) \in {"x", "X"}
        base == IF hex THEN 16 ELSE 10
        ebase == IF hex THEN 2 ELSE 10
    IN  Let(ReadDigits(s, IF hex THEN 3 ELSE 1, base, 0, 0), LAMBDA ip :
        Let(IF CharAt(s, ip.next) = "."
            THEN ReadDigits(s, ip.next + 1, base, ip.value, 0)
            ELSE [value |-> ip.value, count |-> 0, next |-> ip.next], LAMBDA fp :
        LET signAt == fp.next + 1
            hasSign == CharAt(s, signAt) \in {"+", "-"}
            digitsAt == IF hasSign THEN signAt + 1 ELSE signAt
        IN  Let(/\ CharAt(s, fp.next) \in (IF hex THEN {"p", "P"} ELSE {"e", "E"})
                /\ DigitValue(CharAt(s, digitsAt)) < 10, LAMBDA hasExp :
            Let(IF hasExp THEN ReadDigits(s, digitsAt, 10, 0, 0).value ELSE 0, LAMBDA ex :
            Let(hasExp /\ hasSign /\ CharAt(s, signAt) = "-", LAMBDA negExp :
                DRound(fp.value * (IF negExp THEN 1 ELSE Pow(ebase, ex)) * DScale,
                       Pow(base, fp.count) * (IF negExp THEN Pow(ebase, ex) ELSE 1),
                       1))))))

\* Parse::parseApproxNumeric.  The doubles of the model have no largest
\* magnitude, so the conversion leaves errno at 0.
parseApproxNumeric(token, err) ==
    [e |-> Literal(InexactValue(strtod(RemoveUnderscores(token.val)))), error |-> err]


(***************************************************************************)
(* The parser.  Each function takes the Tokeniser and Parse::error as they *)
(* stand and gives its returned expression (NullExpression for a return of *)
(* 0), the two as it leaves them, and the exception it threw, if any.      *)
(***************************************************************************)
Returns(e, tk, err) == [e |-> e, tk |-> tk, error |-> err, exc |-> "none", what |-> ""]
Returns0(tk, err) == Returns(NullExpression, tk, err)
Throws(tk, err, exc, what) ==
    [e |-> NullExpression, tk |-> tk, error |-> err, exc |-> exc, what |-> what]
ThrowsTokenException(tk, err) ==
    Throws(tk, err, "TokenException", "Found illegal character")

\* A callee's result that ends the caller: an exception or a return of 0.
Ends(r) == r.exc # "none" \/ r.e = NullExpression

\* throwParseError: the last token is returned and read again for the
\* message; std::range_error is thrown.
throwParseError(tk, err, msg) ==
    IF 1 > tk.tokp THEN Throws(tk, err, "abort", "assert")
    ELSE Let(nextToken(returnTokens(tk, 1)), LAMBDA n :
             IF n.exc THEN ThrowsTokenException(n.tk, err)
             ELSE Throws(n.tk, err, "range_error", msg))

RECURSIVE orExpression(_, _)
RECURSIVE orExpressionLoop(_, _, _)
RECURSIVE andExpression(_, _)
RECURSIVE andExpressionLoop(_, _, _)
RECURSIVE specialComparisons(_, _, _, _)
RECURSIVE inListLoop(_, _, _, _, _)
RECURSIVE comparisonExpression(_, _)
RECURSIVE addExpression(_, _)
RECURSIVE addExpressionLoop(_, _, _, _)
RECURSIVE multiplyExpression(_, _)
RECURSIVE multiplyExpressionLoop(_, _, _, _)
RECURSIVE unaryArithExpression(_, _)

\* Parse::primaryExpression
primaryExpression(tk, err) ==
    Let(nextToken(tk), LAMBDA n :
        IF n.exc THEN ThrowsTokenException(n.tk, err)
        ELSE CASE n.tok.type = "T_IDENTIFIER" -> Returns(Identifier(n.tok.val), n.tk, err)
               [] n.tok.type = "T_STRING" -> Returns(StringLiteral(n.tok.val), n.tk, err)
               [] n.tok.type = "T_FALSE" -> Returns(Literal(BoolValue(FALSE)), n.tk, err)
               [] n.tok.type = "T_TRUE" -> Returns(Literal(BoolValue(TRUE)), n.tk, err)
               [] n.tok.type = "T_NUMERIC_EXACT" ->
                     Let(parseExactNumeric(n.tok, FALSE, err), LAMBDA r :
                         Returns(r.e, n.tk, r.error))
               [] n.tok.type = "T_NUMERIC_APPROX" ->
                     Let(parseApproxNumeric(n.tok, err), LAMBDA r :
                         Returns(r.e, n.tk, r.error))
               [] OTHER -> Returns0(n.tk, "expected literal or identifier"))

\* Parse::unaryArithExpression
unaryArithExpression(tk, err) ==
    Let(nextToken(tk), LAMBDA n :
        IF n.exc THEN ThrowsTokenException(n.tk, err)
        ELSE CASE n.tok.type = "T_LPAREN" ->
                     Let(orExpression(n.tk, err), LAMBDA r :
                         IF Ends(r) THEN r
                         ELSE Let(nextToken(r.tk), LAMBDA n2 :
                            IF n2.exc THEN ThrowsTokenException(n2.tk, r.error)
                            ELSE IF n2.tok.type # "T_RPAREN"
                            THEN Returns0(n2.tk, "missing ')' after '('")
                            ELSE Returns(r.e, n2.tk, r.error)))
               [] n.tok.type = "T_MINUS" ->
                     Let(nextToken(n.tk), LAMBDA n2 :
                         IF n2.exc THEN ThrowsTokenException(n2.tk, err)
                         ELSE IF n2.tok.type = "T_NUMERIC_EXACT"
                         THEN Let(parseExactNumeric(n2.tok, TRUE, err), LAMBDA r :
                                  Returns(r.e, n2.tk, r.error))
                         ELSE Let(unaryArithExpression(returnTokens(n2.tk, 1), err), LAMBDA r :
                                  IF Ends(r) THEN r
                                  ELSE Returns(UnaryArithExpression("-", r.e), r.tk, r.error)))
               [] OTHER ->
                     \* a unary + is dropped, any other token is returned
                     primaryExpression(IF n.tok.type = "T_PLUS" THEN n.tk
                                       ELSE returnTokens(n.tk, 1), err))

\* A multiplyExpression that reads + and - as it reads * and /: the four
\* operators at one level of precedence.
multiplyExpressionFlat(e, op, tk, err) ==
    Let(unaryArithExpression(tk, err), LAMBDA r :
        IF Ends(r) THEN r
        ELSE Let(IF op = "" THEN r.e ELSE ArithmeticExpression(op, e, r.e), LAMBDA e2 :
             Let(nextToken(r.tk), LAMBDA t :
                IF t.exc THEN ThrowsTokenException(t.tk, r.error)
                ELSE IF t.tok.type \in {"T_MULT", "T_DIV", "T_PLUS", "T_MINUS"}
                THEN multiplyExpressionLoop(e2, CASE t.tok.type = "T_MULT" -> "*"
                                                  [] t.tok.type = "T_DIV" -> "/"
                                                  [] t.tok.type = "T_PLUS" -> "+"
                                                  [] OTHER -> "-",
                                            t.tk, r.error)
                ELSE Returns(e2, returnTokens(t.tk, 1), r.error))))

\* Parse::multiplyExpression from the reading of an operand on.  e is the
\* expression built so far and op the operator read after it; before the
\* first operand there is neither.
multiplyExpressionLoop(e, op, tk, err) ==
    Let(unaryArithExpression(tk, err), LAMBDA r :
        IF Ends(r) THEN r
        ELSE Let(IF op = "" THEN r.e ELSE ArithmeticExpression(op, e, r.e), LAMBDA e2 :
             Let(nextToken(r.tk), LAMBDA t :
                IF t.exc THEN ThrowsTokenException(t.tk, r.error)
                ELSE IF t.tok.type = "T_MULT" \/ t.tok.type = "T_DIV"
                THEN multiplyExpressionLoop(e2, IF t.tok.type = "T_MULT" THEN "*" ELSE "/",
                                            t.tk, r.error)
                ELSE Returns(e2, returnTokens(t.tk, 1), r.error))))

\* Parse::multiplyExpression
multiplyExpression(tk, err) == multiplyExpressionLoop(NullExpression, "", tk, err)

\* Parse::addExpression from the reading of an operand on, e and op as in
\* multiplyExpressionLoop.
addExpressionLoop(e, op, tk, err) ==
    Let(multiplyExpression(tk, err), LAMBDA r :
        IF Ends(r) THEN r
        ELSE Let(IF op = "" THEN r.e ELSE ArithmeticExpression(op, e, r.e), LAMBDA e2 :
             Let(nextToken(r.tk), LAMBDA t :
                IF t.exc THEN ThrowsTokenException(t.tk, r.error)
                ELSE IF t.tok.type = "T_PLUS" \/ t.tok.type = "T_MINUS"
                THEN addExpressionLoop(e2, IF t.tok.type = "T_PLUS" THEN "+" ELSE "-",
                                       t.tk, r.error)
                ELSE Returns(e2, returnTokens(t.tk, 1), r.error))))

\* Parse::addExpression
addExpression(tk, err) == addExpressionLoop(NullExpression, "", tk, err)

\* The do-while loop of the IN case of Parse::specialComparisons.
inListLoop(list, tk, e1, negated, err) ==
    Let(addExpression(tk, err), LAMBDA r :
        IF Ends(r) THEN r
        ELSE Let(nextToken(r.tk), LAMBDA n :
            IF n.exc THEN ThrowsTokenException(n.tk, r.error)
            ELSE IF n.tok.type = "T_COMMA"
            THEN inListLoop(Append(list, r.e), n.tk, e1, negated, r.error)
            ELSE Let(nextToken(returnTokens(n.tk, 1)), LAMBDA n2 :
                IF n2.tok.type # "T_RPAREN"
                THEN Returns0(n2.tk, "missing ',' or ')' after IN")
                ELSE IF negated
                THEN Returns(NotInExpression(e1, Append(list, r.e)), n2.tk, r.error)
                ELSE Returns(InExpression(e1, Append(list, r.e)), n2.tk, r.error))))


\* Parse::specialComparisons
specialComparisons(tk, e1, negated, err) ==
    LET Negated(b) == IF negated THEN UnaryBooleanExpression("NOT", b) ELSE b
    IN  Let(nextToken(tk), LAMBDA n :
        IF n.exc THEN ThrowsTokenException(n.tk, err)
        ELSE CASE n.tok.type = "T_LIKE" ->
                Let(nextToken(n.tk), LAMBDA t :
                    IF t.exc THEN ThrowsTokenException(t.tk, err)
                    ELSE IF t.tok.type # "T_STRING"
                    THEN Returns0(t.tk, "expected string after LIKE")
                    ELSE Let(nextToken(t.tk), LAMBDA n2 :
                        IF n2.exc THEN ThrowsTokenException(n2.tk, err)
                        ELSE IF n2.tok.type = "T_ESCAPE"
                        THEN Let(nextToken(n2.tk), LAMBDA e :
                            IF e.exc THEN ThrowsTokenException(e.tk, err)
                            ELSE IF e.tok.type # "T_STRING"
                            THEN Returns0(e.tk, "expected string after ESCAPE")
                            ELSE IF Len(e.tok.val) > 1 \/ e.tok.val \in {<<"%">>, <<"_">>}
                            THEN throwParseError(e.tk, err,
                                    IF Len(e.tok.val) > 1
                                    THEN "single character string required after ESCAPE"
                                    ELSE "'%' and '_' are not allowed as ESCAPE characters")
                            ELSE Let(LikeExpression(e1, t.tok.val, e.tok.val), LAMBDA l :
                                IF l.exc # "none" THEN Throws(e.tk, err, l.exc, "")
                                ELSE Returns(Negated(l.e), e.tk, err)))
                        ELSE Let(LikeExpression(e1, t.tok.val, <<>>), LAMBDA l :
                            IF l.exc # "none"
                            THEN Throws(returnTokens(n2.tk, 1), err, l.exc, "")
                            ELSE Returns(Negated(l.e), returnTokens(n2.tk, 1), err))))
               [] n.tok.type = "T_BETWEEN" ->
                Let(addExpression(n.tk, err), LAMBDA lower :
                    IF Ends(lower) THEN lower
                    ELSE Let(nextToken(lower.tk), LAMBDA n2 :
                        IF n2.exc THEN ThrowsTokenException(n2.tk, lower.error)
                        ELSE IF n2.tok.type # "T_AND"
                        THEN Returns0(n2.tk, "expected AND after BETWEEN")
                        ELSE Let(addExpression(n2.tk, lower.error), LAMBDA upper :
                            IF Ends(upper) THEN upper
                            ELSE Returns(Negated(BetweenExpression(e1, lower.e, upper.e)),
                                         upper.tk, upper.error))))
               [] n.tok.type = "T_IN" ->
                Let(nextToken(n.tk), LAMBDA n2 :
                    IF n2.exc THEN ThrowsTokenException(n2.tk, err)
                    ELSE IF n2.tok.type # "T_LPAREN"
                    THEN Returns0(n2.tk, "missing '(' after IN")
                    ELSE inListLoop(<<>>, n2.tk, e1, negated, err))
               [] OTHER -> Returns0(n.tk, "expected LIKE, IN or BETWEEN"))

ComparisonTokens ==
    [t \in {"T_EQUAL", "T_NEQ", "T_LESS", "T_GRT", "T_LSEQ", "T_GREQ"} |->
        CASE t = "T_EQUAL" -> "="
          [] t = "T_NEQ" -> "<>"
          [] t = "T_LESS" -> "<"
          [] t = "T_GRT" -> ">"
          [] t = "T_LSEQ" -> "<="
          [] OTHER -> ">="]

\* Parse::comparisonExpression
comparisonExpression(tk, err) ==
    Let(nextToken(tk), LAMBDA t :
        IF t.exc THEN ThrowsTokenException(t.tk, err)
        ELSE IF t.tok.type = "T_NOT"
        THEN Let(comparisonExpression(t.tk, err), LAMBDA e :
                 IF Ends(e) THEN e
                 ELSE Returns(UnaryBooleanExpression("NOT", e.e), e.tk, e.error))
        ELSE Let(addExpression(returnTokens(t.tk, 1), err), LAMBDA r1 :
            IF Ends(r1) THEN r1
            ELSE Let(nextToken(r1.tk), LAMBDA n :
                IF n.exc THEN ThrowsTokenException(n.tk, r1.error)
                ELSE CASE n.tok.type = "T_IS" ->
                    Let(nextToken(n.tk), LAMBDA isNext :
                        IF isNext.exc THEN ThrowsTokenException(isNext.tk, r1.error)
                        ELSE IF isNext.tok.type = "T_NULL"
                        THEN Returns(UnaryBooleanExpression("IsNull", r1.e),
                                     isNext.tk, r1.error)
                        ELSE IF isNext.tok.type = "T_NOT"
                        THEN Let(nextToken(isNext.tk), LAMBDA isNotNext :
                            IF isNotNext.exc
                            THEN ThrowsTokenException(isNotNext.tk, r1.error)
                            ELSE IF isNotNext.tok.type = "T_NULL"
                            THEN Returns(UnaryBooleanExpression("IsNonNull", r1.e),
                                         isNotNext.tk, r1.error)
                            ELSE Returns0(isNotNext.tk, "expected NULL or NOT NULL after IS"))
                        ELSE Returns0(isNext.tk, "expected NULL or NOT NULL after IS"))
                  [] n.tok.type \in {"T_NOT", "T_BETWEEN", "T_LIKE", "T_IN"} ->
                    \* after NOT the token stays read; BETWEEN, LIKE and IN are
                    \* returned for specialComparisons to read
                    specialComparisons(IF n.tok.type = "T_NOT" THEN n.tk
                                       ELSE returnTokens(n.tk, 1),
                                       r1.e, n.tok.type = "T_NOT", r1.error)
                  [] OTHER ->
                    Let(nextToken(returnTokens(n.tk, 1)), LAMBDA op :
                        IF op.tok.type \in DOMAIN ComparisonTokens
                        THEN Let(addExpression(op.tk, r1.error), LAMBDA r2 :
                            IF Ends(r2) THEN r2
                            ELSE Returns(ComparisonExpression(ComparisonTokens[op.tok.type],
                                                              r1.e, r2.e),
                                         r2.tk, r2.error))
                        ELSE Returns(r1.e, returnTokens(op.tk, 1), r1.error)))))

\* Parse::andExpression from the reading of an operand on.  e is the
\* expression built so far, none before the first operand.
andExpressionLoop(e, tk, err) ==
    Let(comparisonExpression(tk, err), LAMBDA r :
        IF Ends(r) THEN r
        ELSE Let(IF e = NullExpression THEN r.e ELSE AndExpression(e, r.e), LAMBDA e2 :
             Let(nextToken(r.tk), LAMBDA t :
                IF t.exc THEN ThrowsTokenException(t.tk, r.error)
                ELSE IF t.tok.type = "T_AND" THEN andExpressionLoop(e2, t.tk, r.error)
                ELSE Returns(e2, returnTokens(t.tk, 1), r.error))))

\* Parse::andExpression
andExpression(tk, err) == andExpressionLoop(NullExpression, tk, err)

\* Parse::orExpression from the reading of an operand on, e as in
\* andExpressionLoop.
orExpressionLoop(e, tk, err) ==
    Let(andExpression(tk, err), LAMBDA r :
        IF Ends(r) THEN r
        ELSE Let(IF e = NullExpression THEN r.e ELSE OrExpression(e, r.e), LAMBDA e2 :
             Let(nextToken(r.tk), LAMBDA t :
                IF t.exc THEN ThrowsTokenException(t.tk, r.error)
                ELSE IF t.tok.type = "T_OR" THEN orExpressionLoop(e2, t.tk, r.error)
                ELSE Returns(e2, returnTokens(t.tk, 1), r.error))))

\* Parse::orExpression
orExpression(tk, err) == orExpressionLoop(NullExpression, tk, err)

\* A selectorExpression without the case of the empty input.
selectorExpressionNoEmpty(tk, err) == orExpression(tk, err)

\* A selectorExpression that returns its first token twice.
selectorExpressionReturnsTwice(tk, err) ==
    Let(nextToken(tk), LAMBDA n :
        IF n.exc THEN ThrowsTokenException(n.tk, err)
        ELSE IF n.tok.type = "T_EOS" THEN Returns(Literal(BoolValue(TRUE)), n.tk, err)
        ELSE orExpression(returnTokens(returnTokens(n.tk, 1), 1), err))

\* Parse::selectorExpression
selectorExpression(tk, err) ==
    Let(nextToken(tk), LAMBDA n :
        IF n.exc THEN ThrowsTokenException(n.tk, err)
        ELSE IF n.tok.type = "T_EOS" THEN Returns(Literal(BoolValue(TRUE)), n.tk, err)
        ELSE orExpression(returnTokens(n.tk, 1), err))

\* make_selector: what it returns (in e) or throws, or the abort of a
\* failed assertion.
make_selector(exp_) ==
    Let(Let(selectorExpression(Tokeniser(exp_), ""), LAMBDA r :
            IF r.exc # "none" THEN r
            ELSE Let(ConcreteExpression(r.e), LAMBDA b :
                IF b = NullExpression THEN throwParseError(r.tk, r.error, r.error)
                ELSE Let(nextToken(r.tk), LAMBDA n :
                    IF n.exc THEN ThrowsTokenException(n.tk, r.error)
                    ELSE IF n.tok.type # "T_EOS"
                    THEN throwParseError(n.tk, r.error, "extra input")
                    ELSE Returns(b, n.tk, r.error)))),
        LAMBDA r : IF r.tk.aborted THEN Throws(r.tk, r.error, "abort", "assert") ELSE r)


(***************************************************************************)
(* The calling program: make_selector(exp), then eval(env) on what it      *)
(* returned.                                                               *)
(***************************************************************************)
\* The state before make_selector is called with text on a build, to
\* evaluate the selector against environment.
InitWith(text, environment, build) ==
    /\ pc = "start"
    /\ traps = build
    /\ exp = text
    /\ tokens = <<>>
    /\ tokp = 0
    /\ input = <<>>
    /\ error = ""
    /\ expression = NullExpression
    /\ env = environment
    /\ root_v = [type |-> "none"]
    /\ root_bn = "none"
    /\ ret = "none"
    /\ reads = NoReads
    /\ redo = <<>>
    /\ heap = NoHeap

\* unique_ptr<Expression> b = make_selector(exp)
MakeSelector ==
    /\ pc = "start"
    /\ \E r \in {make_selector(exp)} :
           /\ tokens' = r.tk.tokens
           /\ tokp' = r.tk.tokp
           /\ input' = r.tk.input
           /\ error' = r.error
           /\ expression' = IF r.exc = "none" THEN r.e.expression ELSE NullExpression
           /\ ret' = IF r.exc = "none" THEN "returned" ELSE r.exc
           /\ pc' = IF r.exc = "none" THEN "compiled" ELSE "thrown"
    /\ UNCHANGED <<traps, exp, env, root_v, root_bn, reads, redo, heap>>

\* b->eval(env)
Eval ==
    /\ pc = "compiled"
    /\ \E b \in {ConcreteExpression(expression)} : \E r \in {ConcreteEval(b, env)} :
           /\ root_v' = RootValue(b, env)
           /\ root_bn' = RootBoolOrNone(b, env)
           /\ ret' = r
           /\ pc' = IF r \in {"SIGFPE", "SIGSEGV"} THEN "killed" ELSE "evaluated"
    /\ UNCHANGED <<traps, exp, tokens, tokp, input, error, expression, env, reads, redo,
                   heap>>

Next == MakeSelector \/ Eval

(***************************************************************************)
(* Selector texts: lexemes joined by single spaces.                        *)
(***************************************************************************)
RECURSIVE Join(_)
Join(ws) ==
    IF ws = <<>> THEN <<>>
    ELSE IF Len(ws) = 1 THEN ws[1]
    ELSE ws[1] \o <<" ">> \o Join(Tail(ws))

IdX == <<"X">>
IdY == <<"Y">>

\* The reserved words, as the tests write them.
Word ==
    [Or |-> <<"O", "R">>, And |-> <<"A", "N", "D">>, Not |-> <<"N", "O", "T">>,
     In |-> <<"I", "N">>, Is |-> <<"I", "S">>, Null |-> <<"N", "U", "L", "L">>,
     Like |-> <<"L", "I", "K", "E">>,
     Escape |-> <<"E", "S", "C", "A", "P", "E">>,
     Between |-> <<"B", "E", "T", "W", "E", "E", "N">>]

(***************************************************************************)
(* The values an identifier can be bound to.                               *)
(***************************************************************************)
Values ==
    {EMPTY}
    \cup {BoolValue(b) : b \in BOOLEAN}
    \cup {ExactValue(i) : i \in INT64_MIN..INT64_MAX}
    \cup {InexactValue(x) : x \in {DFin(n) : n \in -DMax..DMax}
                                   \cup {DNegZero, DInf(1), DInf(-1), DNaN}}
    \cup {StringValue(s_) : s_ \in {<<>>, <<"a">>, <<"a", "b">>}}

(***************************************************************************)
(* SpecOperators: one operator applied to the identifiers X and Y, which   *)
(* the environment binds to every pair of values.                          *)
(***************************************************************************)
OperatorTexts ==
    {Join(<<IdX, o, IdY>>) :
        o \in {<<"=">>, <<"<", ">">>, <<"<">>, <<">">>, <<"<", "=">>, <<">", "=">>,
               <<"+">>, <<"-">>, <<"*">>, <<"/">>, Word.Or, Word.And}}
    \cup {IdX, Join(<<<<"-">>, IdX>>), Join(<<Word.Not, IdX>>),
          Join(<<IdX, <<"/">>, IdY, <<"=">>, IdY>>)}

SpecOperators ==
    /\ \E text \in OperatorTexts, build \in BOOLEAN :
        \E environment \in [{IdX, IdY} -> Values] :
            InitWith(text, environment, build)
    /\ [][Next]_vars


(***************************************************************************)
(* Properties of SpecOperators.                                            *)
(***************************************************************************)
\* C2: the top-level eval returns true exactly when the root evaluates to
\* the three-valued TRUE; an UNKNOWN root, a FALSE root and a root that
\* evaluates to a non-boolean value (a number or a string) yield false.
C2_TopLevelTrueIffRootTrue ==
    pc = "evaluated" =>
        /\ ret \in {"true", "false"}
        /\ (ret = "true") <=> (root_bn = "BN_TRUE")
        /\ root_v.type \in {"T_UNKNOWN", "T_EXACT", "T_INEXACT", "T_STRING"} => ret = "false"
        /\ expression = Identifier(IdX) => ((ret = "true") <=> (env[IdX] = BoolValue(TRUE)))

\* C2's case: a root that is a string, and one that is UNKNOWN, gave false.
C2_Witness ==
    /\ pc = "evaluated"
    /\ expression = Identifier(IdX)
    /\ env[IdX].type = "T_STRING"
    /\ root_bn = "BN_UNKNOWN"
    /\ ret = "false"

\* C3: over all nine combinations of three-valued operands OR is TRUE if
\* either operand is TRUE, FALSE if both are FALSE, else UNKNOWN; AND is
\* FALSE if either operand is FALSE, TRUE if both are TRUE, else UNKNOWN;
\* NOT swaps TRUE and FALSE and keeps UNKNOWN: whatever the left operand
\* was, so whether or not the right one was evaluated.
C3_Connectives ==
    LET Three(val) == IF val.type = "T_BOOL"
                      THEN (IF val.b THEN "BN_TRUE" ELSE "BN_FALSE")
                      ELSE "BN_UNKNOWN"
        a == Three(env[IdX])
        b == Three(env[IdY])
    IN  pc = "evaluated" =>
          /\ expression = OrExpression(Identifier(IdX), Identifier(IdY)) =>
                root_bn = (IF a = "BN_TRUE" \/ b = "BN_TRUE" THEN "BN_TRUE"
                           ELSE IF a = "BN_FALSE" /\ b = "BN_FALSE" THEN "BN_FALSE"
                           ELSE "BN_UNKNOWN")
          /\ expression = AndExpression(Identifier(IdX), Identifier(IdY)) =>
                root_bn = (IF a = "BN_FALSE" \/ b = "BN_FALSE" THEN "BN_FALSE"
                           ELSE IF a = "BN_TRUE" /\ b = "BN_TRUE" THEN "BN_TRUE"
                           ELSE "BN_UNKNOWN")
          /\ expression = UnaryBooleanExpression("NOT", Identifier(IdX)) =>
                root_bn = (IF a = "BN_TRUE" THEN "BN_FALSE"
                           ELSE IF a = "BN_FALSE" THEN "BN_TRUE"
                           ELSE "BN_UNKNOWN")

\* C3's case: UNKNOWN AND FALSE, decided by the right operand, was FALSE.
C3_Witness ==
    /\ pc = "evaluated"
    /\ expression = AndExpression(Identifier(IdX), Identifier(IdY))
    /\ env[IdX].type # "T_BOOL"
    /\ env[IdY] = BoolValue(FALSE)
    /\ root_bn = "BN_FALSE"

\* C4: a comparison is UNKNOWN if either operand is Unknown; otherwise a
\* mixed Exact/Inexact pair is promoted to Inexact; = and <> compare
\* values of the same type and are FALSE for different types; < > <= >=
\* compare numeric operands natively and are FALSE when either operand is
\* not numeric.
C4_Comparisons ==
    LET a == env[IdX]
        b == env[IdY]
        Num(val) == val.type \in {"T_EXACT", "T_INEXACT"}
        mixed == Num(a) /\ Num(b) /\ a.type # b.type
        Promoted(val) == IF mixed /\ val.type = "T_EXACT"
                         THEN InexactValue(ToDouble(val.i)) ELSE val
        pa == Promoted(a)
        pb == Promoted(b)
        Equal == CASE pa.type = "T_BOOL" -> pa.b = pb.b
                   [] pa.type = "T_EXACT" -> pa.i = pb.i
                   [] pa.type = "T_INEXACT" -> DEq(pa.x, pb.x)
                   [] OTHER -> pa.s = pb.s
        Less(l, r) == IF l.type = "T_EXACT" THEN l.i < r.i ELSE DLt(l.x, r.x)
        LessEq(l, r) == IF l.type = "T_EXACT" THEN l.i <= r.i
                        ELSE DLt(l.x, r.x) \/ DEq(l.x, r.x)
        o == expression.op
        holds == CASE o = "=" -> pa.type = pb.type /\ Equal
                   [] o = "<>" -> pa.type = pb.type /\ ~Equal
                   [] o = "<" -> Num(a) /\ Num(b) /\ Less(pa, pb)
                   [] o = ">" -> Num(a) /\ Num(b) /\ Less(pb, pa)
                   [] o = "<=" -> Num(a) /\ Num(b) /\ LessEq(pa, pb)
                   [] OTHER -> Num(a) /\ Num(b) /\ LessEq(pb, pa)
    IN  (/\ pc \in {"evaluated", "killed"}
         /\ expression.node = "ComparisonExpression"
         /\ expression.e1 = Identifier(IdX)
         /\ expression.e2 = Identifier(IdY)) =>
            /\ pc = "evaluated"
            /\ root_bn = (IF a.type = "T_UNKNOWN" \/ b.type = "T_UNKNOWN" THEN "BN_UNKNOWN"
                          ELSE IF holds THEN "BN_TRUE"
                          ELSE "BN_FALSE")

\* C4's case: an Exact and a String compared by <> gave FALSE.
C4_Witness ==
    /\ pc = "evaluated"
    /\ expression = ComparisonExpression("<>", Identifier(IdX), Identifier(IdY))
    /\ env[IdX].type = "T_EXACT"
    /\ env[IdY].type = "T_STRING"
    /\ root_bn = "BN_FALSE"

\* C5: dividing an Exact value by an Exact zero completes normally and
\* yields Unknown, so a comparison on the quotient is UNKNOWN and the
\* top-level result is false.
C5_ExactDivideByZeroIsUnknown ==
    LET a == env[IdX]
        b == env[IdY]
        X == Identifier(IdX)
        Y == Identifier(IdY)
    IN  (/\ pc \in {"evaluated", "killed"}
         /\ a.type = "T_EXACT"
         /\ b = ExactValue(0)) =>
            /\ expression = ArithmeticExpression("/", X, Y) =>
                  pc = "evaluated" /\ root_v = EMPTY /\ ret = "false"
            /\ expression = ComparisonExpression("=", ArithmeticExpression("/", X, Y), Y) =>
                  pc = "evaluated" /\ root_bn = "BN_UNKNOWN" /\ ret = "false"

\* C6: + - * and / by a non-zero divisor are Unknown if an operand is
\* Unknown or not numeric, Exact when both operands are Exact (/ truncating
\* toward zero), Inexact when at least one is Inexact, the Exact one having
\* been promoted; unary minus of a non-numeric value is Unknown.
C6_Arithmetic ==
    LET a == env[IdX]
        b == env[IdY]
        o == expression.op
        Num(val) == val.type \in {"T_EXACT", "T_INEXACT"}
        zeroDivisor == \/ b = ExactValue(0)
                       \/ (b.type = "T_INEXACT" /\ b.x.k = "fin" /\ b.x.n = 0)
        AsDouble(val) == IF val.type = "T_EXACT" THEN ToDouble(val.i) ELSE val.x
        Magnitude(n) == IF n < 0 THEN -n ELSE n
        Quotient == (IF (a.i < 0) # (b.i < 0) THEN -1 ELSE 1)
                        * (Magnitude(a.i) \div Magnitude(b.i))
    IN  (pc \in {"evaluated", "killed"}) =>
          /\ (/\ expression.node = "ArithmeticExpression"
              /\ expression.e1 = Identifier(IdX)
              /\ expression.e2 = Identifier(IdY)
              /\ ~(o = "/" /\ zeroDivisor)) =>
                /\ pc = "evaluated"
                /\ ~Num(a) \/ ~Num(b) => root_v = EMPTY
                /\ a.type = "T_EXACT" /\ b.type = "T_EXACT" =>
                      /\ root_v.type = "T_EXACT"
                      /\ o = "/" => root_v.i = Quotient
                /\ Num(a) /\ Num(b) /\ "T_INEXACT" \in {a.type, b.type} =>
                      root_v = InexactValue(
                          CASE o = "+" -> DAdd(AsDouble(a), AsDouble(b))
                            [] o = "-" -> DAdd(AsDouble(a), DNeg(AsDouble(b)))
                            [] o = "*" -> DMul(AsDouble(a), AsDouble(b))
                            [] OTHER -> DDiv(AsDouble(a), AsDouble(b)))
          /\ (/\ expression = UnaryArithExpression("-", Identifier(IdX))
              /\ ~Num(a)) =>
                pc = "evaluated" /\ root_v = EMPTY


(***************************************************************************)
(* SpecIn: x IN (...) and x NOT IN (...) over lists of up to MaxList       *)
(* identifiers, bound to every combination of values of each type, and     *)
(* over the lists of literals of the tests.                                *)
(***************************************************************************)
ListId(i) == <<"L", <<"1", "2", "3", "4", "5", "6", "7", "8", "9">>[i]>>

RECURSIVE ListLexemes(_)
ListLexemes(n) ==
    IF n = 1 THEN <<ListId(1)>>
    ELSE ListLexemes(n - 1) \o <<<<",">>, ListId(n)>>

\* X IN (L1,...,Ln), X NOT IN (L1,...,Ln), (X NOT IN (L1,...,Ln)) IS NULL
InTexts(n) ==
    { Join(<<IdX, Word.In, <<"(">>>> \o ListLexemes(n) \o <<<<")">>>>),
      Join(<<IdX, Word.Not, Word.In, <<"(">>>> \o ListLexemes(n) \o <<<<")">>>>),
      Join(<<<<"(">>, IdX, Word.Not, Word.In, <<"(">>>> \o ListLexemes(n)
           \o <<<<")">>, <<")">>, Word.Is, Word.Null>>) }

\* comparisonEval's lists of literals: 1 IN ('hello','there','polly'),
\* 1 NOT IN the same, and (-16 NOT IN ('hello','there',true)) IS NULL,
\* with shorter words and a number that fits the modelled int64_t.
LiteralList(last) ==
    <<<<"(">>, <<"'", "a", "'">>, <<",">>, <<"'", "b", "'">>, <<",">>, last, <<")">>>>
LiteralInTexts ==
    { Join(<<<<"1">>, Word.In>> \o LiteralList(<<"'", "c", "'">>)),
      Join(<<<<"1">>, Word.Not, Word.In>> \o LiteralList(<<"'", "c", "'">>)),
      Join(<<<<"-", "1">>, Word.Not, Word.In>> \o LiteralList(<<"t", "r", "u", "e">>)),
      Join(<<<<"(">>, <<"-", "1">>, Word.Not, Word.In>> \o LiteralList(<<"t", "r", "u", "e">>)
           \o <<<<")">>, Word.Is, Word.Null>>) }

ListValues ==
    {EMPTY, BoolValue(TRUE), ExactValue(0), ExactValue(1),
     InexactValue(ToDouble(1)), StringValue(<<"a">>)}

SpecIn ==
    /\ \E build \in BOOLEAN :
        \/ \E n \in 1..MaxList :
              \E text \in InTexts(n) :
                \E environment \in [{IdX} \cup {ListId(i) : i \in 1..n} -> ListValues] :
                    InitWith(text, environment, build)
        \/ \E text \in LiteralInTexts :
              \E environment \in [{IdX} -> ListValues] :
                    InitWith(text, environment, build)
    /\ [][Next]_vars

\* C7: x IN (v1,...,vn) is UNKNOWN if x is Unknown; otherwise TRUE if some
\* vi equals x under the = rule, even if other elements are Unknown;
\* otherwise UNKNOWN if some vi is Unknown; otherwise FALSE.
C7_In ==
    LET x == eval(expression.e, env)
        n == Len(expression.l)
        vi(i) == eval(expression.l[i], env)
        Known(val) == val.type # "T_UNKNOWN"
    IN  (pc = "evaluated" /\ expression.node = "InExpression") =>
            root_bn = (IF ~Known(x) THEN "BN_UNKNOWN"
                       ELSE IF \E i \in 1..n : Known(vi(i)) /\ OpEq(x, vi(i)) THEN "BN_TRUE"
                       ELSE IF \E i \in 1..n : ~Known(vi(i)) THEN "BN_UNKNOWN"
                       ELSE "BN_FALSE")

\* C7's case: an Unknown element before the one that equals x; TRUE.
C7_Witness ==
    /\ pc = "evaluated"
    /\ expression.node = "InExpression"
    /\ Len(expression.l) = 2
    /\ env[IdX] = ExactValue(1)
    /\ env[ListId(1)] = EMPTY
    /\ env[ListId(2)] = InexactValue(ToDouble(1))
    /\ root_bn = "BN_TRUE"

\* C8: x NOT IN (v1,...,vn) with x known is FALSE if some vi equals x;
\* otherwise UNKNOWN if some vi is Unknown; otherwise FALSE if some vi has
\* a type different from x's that is not numeric-compatible with it;
\* otherwise TRUE.  1 NOT IN and 1 IN a list of strings are both FALSE.
C8_NotIn ==
    LET x == eval(expression.e, env)
        n == Len(expression.l)
        vi(i) == eval(expression.l[i], env)
        Known(val) == val.type # "T_UNKNOWN"
        Num(val) == val.type \in {"T_EXACT", "T_INEXACT"}
        Incompatible(val) == val.type # x.type /\ ~(Num(val) /\ Num(x))
        strings == \A i \in 1..n : expression.l[i].node = "StringLiteral"
    IN  /\ (pc = "evaluated" /\ expression.node = "NotInExpression" /\ Known(x)) =>
              root_bn = (IF \E i \in 1..n : Known(vi(i)) /\ OpEq(x, vi(i)) THEN "BN_FALSE"
                         ELSE IF \E i \in 1..n : ~Known(vi(i)) THEN "BN_UNKNOWN"
                         ELSE IF \E i \in 1..n : Incompatible(vi(i)) THEN "BN_FALSE"
                         ELSE "BN_TRUE")
        /\ (/\ pc = "evaluated"
            /\ expression.node \in {"InExpression", "NotInExpression"}
            /\ expression.e = Literal(ExactValue(1))
            /\ strings) => root_bn = "BN_FALSE"

\* C8's case: an Unknown element, then a string, for a number: UNKNOWN.
C8_Witness ==
    /\ pc = "evaluated"
    /\ expression.node = "NotInExpression"
    /\ Len(expression.l) = 2
    /\ env[IdX] = ExactValue(1)
    /\ env[ListId(1)] = EMPTY
    /\ env[ListId(2)] = StringValue(<<"a">>)
    /\ root_bn = "BN_UNKNOWN"

\* The state is after the evaluation of x NOT IN (...), or of
\* (x NOT IN (...)) IS NULL, where x is known, no element is Unknown, no
\* element equals x and some element is type-incompatible with x.
NotInIncompatibleCase ==
    LET isNull == /\ expression.node = "UnaryBooleanExpression"
                  /\ expression.op = "IsNull"
                  /\ expression.e1.node = "NotInExpression"
        notIn == IF isNull THEN expression.e1 ELSE expression
        x == eval(notIn.e, env)
        n == Len(notIn.l)
        vi(i) == eval(notIn.l[i], env)
        Num(val) == val.type \in {"T_EXACT", "T_INEXACT"}
    IN  /\ pc = "evaluated"
        /\ isNull \/ expression.node = "NotInExpression"
        /\ x.type # "T_UNKNOWN"
        /\ \A i \in 1..n : vi(i).type # "T_UNKNOWN" /\ ~OpEq(x, vi(i))
        /\ \E i \in 1..n : vi(i).type # x.type /\ ~(Num(vi(i)) /\ Num(x))

\* C9 (as the code has it): when x is known, no list element is Unknown,
\* no element equals x and some element is type-incompatible with x,
\* x NOT IN (...) evaluates to FALSE, so that
\* (-16 NOT IN ('hello','there',true)) IS NULL evaluates to false.
C9_NotInIncompatibleIsFalse ==
    NotInIncompatibleCase =>
        /\ root_bn = "BN_FALSE"
        /\ ret = "false"

\* C9 (as the spec has it): in that case x NOT IN (...) evaluates to
\* UNKNOWN, so that (-16 NOT IN ('hello','there',true)) IS NULL evaluates
\* to true.
C9_NotInIncompatibleIsUnknown ==
    NotInIncompatibleCase =>
        IF expression.node = "NotInExpression"
        THEN root_bn = "BN_UNKNOWN"
        ELSE root_bn = "BN_TRUE" /\ ret = "true"

\* C9's case: (-1 NOT IN ('a','b',true)) IS NULL has been evaluated.
C9_Witness ==
    /\ NotInIncompatibleCase
    /\ expression.node = "UnaryBooleanExpression"
    /\ expression.e1.e = Literal(ExactValue(-1))
    /\ expression.e1.l = <<StringLiteral(<<"a">>), StringLiteral(<<"b">>),
                           Literal(BoolValue(TRUE))>>

(***************************************************************************)
(* SpecLike: X LIKE 'p' and X NOT LIKE 'p' for every pattern p of up to    *)
(* MaxPattern characters, X bound to every string of up to MaxSubject      *)
(* characters and to values that are no strings.                           *)
(***************************************************************************)
RECURSIVE SeqsUpTo(_, _)
SeqsUpTo(A, n) ==
    IF n = 0 THEN {<<>>}
    ELSE LET S == SeqsUpTo(A, n - 1)
         IN  S \cup {Append(q, c) : q \in S, c \in A}

LikeTexts ==
    LET Patterns == {<<"'">> \o p \o <<"'">> :
                        p \in SeqsUpTo({"a", "%", "_", "+", "]"}, MaxPattern)}
    IN  {Join(<<IdX, Word.Like, p>>) : p \in Patterns}
        \cup {Join(<<IdX, Word.Not, Word.Like, p>>) : p \in Patterns}

SubjectValues ==
    {StringValue(str) : str \in SeqsUpTo({"a", "+", "\n"}, MaxSubject)}
    \cup {EMPTY, ExactValue(1)}

SpecLike ==
    /\ \E text \in LikeTexts, build \in BOOLEAN :
          \E environment \in [{IdX} -> SubjectValues] :
              InitWith(text, environment, build)
    /\ [][Next]_vars

\* Does p from index i on match the whole of str from index j on, where %
\* matches any sequence of characters, _ exactly one character, and any
\* other character only itself?
RECURSIVE SqlLike(_, _, _, _)
SqlLike(p, i, str, j) ==
    IF i > Len(p) THEN j > Len(str)
    ELSE IF p[i] = "%"
         THEN \E k \in j..(Len(str) + 1) : SqlLike(p, i + 1, str, k)
    ELSE IF j > Len(str) THEN FALSE
    ELSE IF p[i] = "_" THEN SqlLike(p, i + 1, str, j + 1)
    ELSE p[i] = str[j] /\ SqlLike(p, i + 1, str, j + 1)

\* C10: x LIKE p is UNKNOWN when x is not a String; otherwise TRUE iff the
\* whole of x matches p, % matching any sequence of characters, _ exactly
\* one character and every other character, regex metacharacters
\* included, only itself; x NOT LIKE p is the three-valued negation.
C10_Like ==
    LET negated == expression.node = "UnaryBooleanExpression"
        x == env[IdX]
        p == tokens[IF negated THEN 4 ELSE 3].val
        matches == SqlLike(p, 1, x.s, 1)
    IN  pc = "evaluated" =>
            root_bn = (IF x.type # "T_STRING" THEN "BN_UNKNOWN"
                       ELSE IF matches # negated THEN "BN_TRUE"
                       ELSE "BN_FALSE")

(***************************************************************************)
(* Spec: make_selector on every text of up to MaxTokens lexemes, well      *)
(* formed or not, and the evaluation of what it returns.  No text drawn    *)
(* divides, so one build stands for both.                                  *)
(***************************************************************************)
SelectorTexts ==
    {Join(ws) : ws \in SeqsUpTo({IdX, Word.In, <<"(">>, <<")">>, Word.Is, Word.Null,
                                 Word.Or, Word.Not}, MaxTokens)}

Init ==
    \E text \in SelectorTexts :
        \E environment \in [{IdX} -> {EMPTY, BoolValue(TRUE)}] :
            InitWith(text, environment, TRUE)

Spec == Init /\ [][Next]_vars

\* C1: on every input on which parsing fails, wherever the failure is
\* detected, make_selector raises a parse error and returns no
\* Expression; what it returns is the tree of a whole well-formed input.
C1_ParseFailureRaises ==
    /\ (pc # "start" /\ error # "") => (pc = "thrown" /\ ret = "range_error")
    /\ pc \in {"compiled", "evaluated", "killed"} => expression # NullExpression

(***************************************************************************)
(* SpecEscape: X LIKE 'p' ESCAPE 'e' for every pattern p of up to          *)
(* MaxPattern characters and the escape strings '', 'z', '%', '_' and      *)
(* 'zz', X bound to every string of up to MaxSubject characters and to no  *)
(* value.                                                                  *)
(***************************************************************************)
SpecEscape ==
    /\ \E p \in SeqsUpTo({"z", "a", "%", "+"}, MaxPattern),
          e \in {<<>>, <<"z">>, <<"%">>, <<"_">>, <<"z", "z">>},
          build \in BOOLEAN :
          \E text \in {Join(<<IdX, Word.Like, <<"'">> \o p \o <<"'">>,
                              Word.Escape, <<"'">> \o e \o <<"'">>>>)} :
          \E environment \in [{IdX} -> {StringValue(str) :
                                   str \in SeqsUpTo({"z", "a", "%"}, MaxSubject)}
                               \cup {EMPTY}] :
              InitWith(text, environment, build)
    /\ [][Next]_vars

\* Does p from index i on match the whole of str from index j on, where
\* the character after the escape character e matches only itself, and
\* otherwise % matches any sequence of characters, _ exactly one character
\* and any other character only itself?
RECURSIVE SqlLikeEscape(_, _, _, _, _)
SqlLikeEscape(p, i, e, str, j) ==
    IF i > Len(p) THEN j > Len(str)
    ELSE IF p[i] = e /\ i < Len(p)
         THEN /\ j <= Len(str)
              /\ p[i + 1] = str[j]
              /\ SqlLikeEscape(p, i + 2, e, str, j + 1)
    ELSE IF p[i] = "%"
         THEN \E k \in j..(Len(str) + 1) : SqlLikeEscape(p, i + 1, e, str, k)
    ELSE IF j > Len(str) THEN FALSE
    ELSE IF p[i] = "_" THEN SqlLikeEscape(p, i + 1, e, str, j + 1)
    ELSE p[i] = str[j] /\ SqlLikeEscape(p, i + 1, e, str, j + 1)

\* Does every escape character e of p from index i on have a pattern
\* character after it?
RECURSIVE EscapesPaired(_, _, _)
EscapesPaired(p, i, e) ==
    IF i > Len(p) THEN TRUE
    ELSE IF p[i] # e THEN EscapesPaired(p, i + 1, e)
    ELSE i < Len(p) /\ EscapesPaired(p, i + 2, e)

\* The characters of p from index i on that no escape character e precedes.
RECURSIVE Unescaped(_, _, _)
Unescaped(p, i, e) ==
    IF i > Len(p) THEN {}
    ELSE IF p[i] = e THEN Unescaped(p, i + 2, e)
    ELSE {p[i]} \cup Unescaped(p, i + 1, e)

\* C11: with a declared escape character, the escape character is consumed
\* and the pattern character after it, be it %, a regex metacharacter, an
\* ordinary character or the escape character itself, matches only itself:
\* the selector compiles, and with ESCAPE 'z' the pattern 'zz' matches the
\* string 'z' and no other.
C11_EscapedCharacterLiteral ==
    LET p == tokens[3].val
        e == tokens[5].val
        x == env[IdX]
    IN  (/\ pc # "start"
         /\ e = <<"z">>
         /\ EscapesPaired(p, 1, "z")
         /\ "z" \in {p[i] : i \in 1..Len(p)}
         /\ "+" \notin Unescaped(p, 1, "z")) =>
            /\ pc # "thrown"
            /\ (pc = "evaluated" /\ x.type = "T_STRING") =>
                  root_bn = (IF SqlLikeEscape(p, 1, "z", x.s, 1) THEN "BN_TRUE" ELSE "BN_FALSE")

\* C12: expr LIKE string ESCAPE string is a parse error unless the ESCAPE
\* string is exactly one character that is neither % nor _: the empty and
\* the two-character ESCAPE strings are rejected, as are '%' and '_'.
C12_EscapeStringChecked ==
    LET e == tokens[5].val
    IN  (pc # "start" /\ ~(Len(e) = 1 /\ e[1] \notin {"%", "_"})) =>
            pc = "thrown" /\ ret = "range_error"

(***************************************************************************)
(* SpecBlank: the empty text and every text of up to MaxBlank whitespace   *)
(* characters, and next to them X alone and X after a space, X bound to    *)
(* every value.                                                            *)
(***************************************************************************)
SpecBlank ==
    /\ \E text \in SeqsUpTo({" ", "\t", "\n"}, MaxBlank) \cup {IdX, <<" ">> \o IdX},
          build \in BOOLEAN :
          \E environment \in [{IdX} -> Values] :
              InitWith(text, environment, build)
    /\ [][Next]_vars

\* C13: the empty input and an input of whitespace only compile to the
\* literal TRUE, which evaluates to true in every environment.
C13_BlankIsTrue ==
    (pc # "start" /\ \A i \in 1..Len(exp) : isspace(exp[i])) =>
        /\ pc \in {"compiled", "evaluated"}
        /\ expression = Literal(BoolValue(TRUE))
        /\ pc = "evaluated" => (root_bn = "BN_TRUE" /\ ret = "true")

\* C13's case: a text of one space has been evaluated where X is false.
C13_Witness ==
    /\ pc = "evaluated"
    /\ exp = <<" ">>
    /\ env[IdX] = BoolValue(FALSE)
    /\ ret = "true"

(***************************************************************************)
(* SpecPrecedence: the connectives, NOT, = and the arithmetic operators    *)
(* combined without parentheses and with them, over every choice of        *)
(* operands among the identifiers X and Y, a string and a boolean literal. *)
(***************************************************************************)
Operands == {IdX, IdY, <<"'", "a", "'">>, <<"t", "r", "u", "e">>}

\* The texts by form, each over the operands t[1], t[2], ...
PrecedenceText(form, t) ==
    CASE form = "OrAnd" -> Join(<<t[1], Word.Or, t[2], Word.And, t[3]>>)
      [] form = "NotEq" -> Join(<<Word.Not, t[1], <<"=">>, t[2]>>)
      [] form = "NotAnd" -> Join(<<Word.Not, t[1], Word.And, t[2]>>)
      [] form = "EqAddMult" -> Join(<<t[1], <<"=">>, t[2], <<"+">>, t[3], <<"*">>, t[4]>>)
      [] form = "(Or)And" -> Join(<<<<"(">>, t[1], Word.Or, t[2], <<")">>, Word.And, t[3]>>)
      [] form = "(Not)Eq" -> Join(<<<<"(">>, Word.Not, t[1], <<")">>, <<"=">>, t[2]>>)
      [] OTHER -> Join(<<t[1], <<"=">>, <<"(">>, t[2], <<"+">>, t[3], <<")">>,
                         <<"*">>, t[4]>>)

SpecPrecedence ==
    /\ \E text \in
            {PrecedenceText(form, t) : form \in {"NotEq", "NotAnd", "(Not)Eq"},
                                       t \in [1..2 -> Operands]}
            \cup {PrecedenceText(form, t) : form \in {"OrAnd", "(Or)And"},
                                            t \in [1..3 -> Operands]}
            \cup {PrecedenceText(form, t) : form \in {"EqAddMult", "Eq(Add)Mult"},
                                            t \in [1..4 -> Operands]} :
          \E environment \in [{IdX, IdY} -> {EMPTY, ExactValue(1)}] :
              InitWith(text, environment, TRUE)
    /\ [][Next]_vars

\* The node that an operand alone stands for.
Leaf(a) ==
    CASE a = <<"'", "a", "'">> -> StringLiteral(<<"a">>)
      [] a = <<"t", "r", "u", "e">> -> Literal(BoolValue(TRUE))
      [] OTHER -> Identifier(a)

\* C14: precedence from lowest to highest is OR, AND, NOT, comparison,
\* binary + and -, * and /: for all operands a OR b AND c is parsed as
\* a OR (b AND c), NOT a = b as NOT (a = b), NOT a AND b as (NOT a) AND b
\* and a = b + c * d as a = (b + (c * d)); parentheses override the
\* grouping.
C14_Precedence ==
    pc # "start" =>
      /\ pc # "thrown"
      /\ \A a \in Operands, b \in Operands :
          /\ exp = PrecedenceText("NotEq", <<a, b>>) =>
                expression = UnaryBooleanExpression("NOT",
                                ComparisonExpression("=", Leaf(a), Leaf(b)))
          /\ exp = PrecedenceText("NotAnd", <<a, b>>) =>
                expression = AndExpression(UnaryBooleanExpression("NOT", Leaf(a)), Leaf(b))
          /\ exp = PrecedenceText("(Not)Eq", <<a, b>>) =>
                expression = ComparisonExpression("=",
                                UnaryBooleanExpression("NOT", Leaf(a)), Leaf(b))
          /\ \A c \in Operands :
              /\ exp = PrecedenceText("OrAnd", <<a, b, c>>) =>
                    expression = OrExpression(Leaf(a), AndExpression(Leaf(b), Leaf(c)))
              /\ exp = PrecedenceText("(Or)And", <<a, b, c>>) =>
                    expression = AndExpression(OrExpression(Leaf(a), Leaf(b)), Leaf(c))
              /\ \A d \in Operands :
                  /\ exp = PrecedenceText("EqAddMult", <<a, b, c, d>>) =>
                        expression = ComparisonExpression("=", Leaf(a),
                                        ArithmeticExpression("+", Leaf(b),
                                            ArithmeticExpression("*", Leaf(c), Leaf(d))))
                  /\ exp = PrecedenceText("Eq(Add)Mult", <<a, b, c, d>>) =>
                        expression = ComparisonExpression("=", Leaf(a),
                                        ArithmeticExpression("*",
                                            ArithmeticExpression("+", Leaf(b), Leaf(c)),
                                            Leaf(d)))

\* C14's case: X = Y + X * Y has been compiled, the product under the sum.
C14_Witness ==
    /\ pc = "compiled"
    /\ exp = PrecedenceText("EqAddMult", <<IdX, IdY, IdX, IdY>>)
    /\ expression.node = "ComparisonExpression"
    /\ expression.e2.node = "ArithmeticExpression"
    /\ expression.e2.op = "+"
    /\ expression.e2.e2.op = "*"

(***************************************************************************)
(* SpecLiterals: the exact numeric literals of every magnitude from 0 to   *)
(* past the largest uint64_t, written in decimal, with the prefixes 0x and *)
(* 0b (the digits directly after the prefix, or after one more 0) and with *)
(* a leading 0, with and without a minus in front, alone and compared with *)
(* X.                                                                      *)
(***************************************************************************)
\* The text of the literal of magnitude n in a base, after a minus or not,
\* alone or as the right operand of X = ; its digits are written the most
\* significant first, after a 0 when the literal is padded.
LiteralText(base, n, minus, compared, padded) ==
    LET digit(d) == <<"0", "1", "2", "3", "4", "5", "6", "7", "8", "9",
                      "A", "B", "C", "D", "E", "F">>[d + 1]
        RECURSIVE Numeral(_)
        Numeral(m) == IF m < base THEN <<digit(m)>>
                      ELSE Append(Numeral(m \div base), digit(m % base))
    IN  (IF compared THEN IdX \o <<" ", "=", " ">> ELSE <<>>)
        \o (IF minus THEN <<"-">> ELSE <<>>)
        \o (CASE base = 16 -> <<"0", "x">>
              [] base = 2 -> <<"0", "b">>
              [] base = 8 -> <<"0">>
              [] OTHER -> <<>>)
        \o (IF padded THEN <<"0">> ELSE <<>>)
        \o Numeral(n)

SpecLiterals ==
    /\ \E base \in {2, 8, 10, 16}, n \in 0..(2 * UINT64_MAX + 2), minus \in BOOLEAN,
          compared \in BOOLEAN, padded \in BOOLEAN :
          \E environment \in [{IdX} -> {EMPTY, ExactValue(INT64_MIN), ExactValue(INT64_MAX)}] :
              /\ padded => base \in {2, 8, 16}
              /\ InitWith(LiteralText(base, n, minus, compared, padded), environment, TRUE)
    /\ [][Next]_vars

\* C15: in every base an exact numeric literal above the largest int64_t
\* is a parse error, but for the magnitude one above it directly after a
\* unary minus, which yields INT64_MIN; every literal up to the largest
\* int64_t is accepted, with or without a minus.
C15_OverflowRejectedInEveryBase ==
    \A base \in {2, 8, 10, 16}, n \in 0..(2 * UINT64_MAX + 2), minus \in BOOLEAN,
       compared \in BOOLEAN, padded \in BOOLEAN :
        (/\ pc # "start"
         /\ padded => base \in {2, 8, 16}
         /\ exp = LiteralText(base, n, minus, compared, padded)) =>
            IF n <= INT64_MAX \/ (minus /\ n = INT64_MAX + 1)
            THEN /\ pc # "thrown"
                 /\ (IF compared THEN expression.e2 ELSE expression)
                        = Literal(ExactValue(IF minus THEN -n ELSE n))
            ELSE pc = "thrown" /\ ret = "range_error"

(***************************************************************************)
(* SpecLaws: (e) OR NOT (e), (e) AND NOT (e) and (e) OR (e) for boolean    *)
(* expressions e over X and Y, and a = b for operands a and b among X, Y   *)
(* and the quotient Y / Y, in the environments that bind X and Y to values *)
(* of each type.                                                           *)
(***************************************************************************)
\* The texts by form, over the lexemes of e, or of a and b.
LawText(form, a, b) ==
    LET paren(e) == <<<<"(">>>> \o e \o <<<<")">>>>
    IN  Join(CASE form = "OrNot" -> paren(a) \o <<Word.Or, Word.Not>> \o paren(a)
               [] form = "AndNot" -> paren(a) \o <<Word.And, Word.Not>> \o paren(a)
               [] form = "OrSame" -> paren(a) \o <<Word.Or>> \o paren(a)
               [] OTHER -> a \o <<<<"=">>>> \o b)

SpecLaws ==
    /\ \E build \in BOOLEAN :
        \E environment \in [{IdX, IdY} ->
                {EMPTY, BoolValue(TRUE), BoolValue(FALSE), ExactValue(0), ExactValue(1),
                 InexactValue(ToDouble(1)), InexactValue(DNaN), StringValue(<<"a">>)}] :
            \/ \E form \in {"OrNot", "AndNot", "OrSame"} :
                  \E e \in {<<IdX>>, <<IdX, <<"=">>, IdY>>, <<IdX, <<"<">>, IdY>>,
                            <<IdX, Word.Is, Word.Null>>, <<IdX, Word.And, IdY>>,
                            <<Word.Not, IdX>>} :
                      InitWith(LawText(form, e, e), environment, build)
            \/ \E a \in {<<IdX>>, <<IdY>>, <<IdY, <<"/">>, IdY>>} :
                  \E b \in {<<IdX>>, <<IdY>>, <<IdY, <<"/">>, IdY>>} :
                      InitWith(LawText("Eq", a, b), environment, build)
    /\ [][Next]_vars

\* C16: for every boolean expression e and every environment e OR NOT e
\* is TRUE when e is TRUE or FALSE and UNKNOWN when e is UNKNOWN;
\* e AND NOT e is FALSE when e is TRUE or FALSE and UNKNOWN when e is
\* UNKNOWN; e OR e has the three-valued result of e.  The e that is X
\* alone is UNKNOWN exactly when X is bound to no boolean.
C16_ThreeValuedLaws ==
    LET e == expression.e1
        v == eval_bool(e, env)
        known == v \in {"BN_TRUE", "BN_FALSE"}
        isNot(n) == n.node = "UnaryBooleanExpression" /\ n.op = "NOT" /\ n.e1 = e
    IN  (pc = "evaluated" /\ expression.node \in {"OrExpression", "AndExpression"}) =>
          /\ e = Identifier(IdX) => (known <=> env[IdX].type = "T_BOOL")
          /\ (expression.node = "OrExpression" /\ isNot(expression.e2)) =>
                root_bn = (IF known THEN "BN_TRUE" ELSE "BN_UNKNOWN")
          /\ (expression.node = "AndExpression" /\ isNot(expression.e2)) =>
                root_bn = (IF known THEN "BN_FALSE" ELSE "BN_UNKNOWN")
          /\ (expression.node = "OrExpression" /\ expression.e2 = e) => root_bn = v

\* C16's case: (X = Y) OR NOT (X = Y) with X unbound has been evaluated.
C16_Witness ==
    /\ pc = "evaluated"
    /\ exp = LawText("OrNot", <<IdX, <<"=">>, IdY>>, <<>>)
    /\ expression = OrExpression(ComparisonExpression("=", Identifier(IdX), Identifier(IdY)),
                        UnaryBooleanExpression("NOT",
                            ComparisonExpression("=", Identifier(IdX), Identifier(IdY))))
    /\ env[IdX] = EMPTY
    /\ env[IdY] = ExactValue(1)
    /\ root_bn = "BN_UNKNOWN"

\* C17: equality is commutative: for all operands a and b and every
\* environment, a = b and b = a evaluate to the same three-valued result
\* (an evaluation that ends in a fault has none).
C17_EqualityCommutes ==
    (/\ pc \in {"evaluated", "killed"}
     /\ expression.node = "ComparisonExpression") =>
        root_bn = eval_bool(ComparisonExpression("=", expression.e2, expression.e1), env)


(***************************************************************************)
(* SpecBetween: X BETWEEN Y AND Z and X NOT BETWEEN Y AND Z, the three     *)
(* identifiers bound to values of every type, among them two exact values  *)
(* that convert to the same double.                                        *)
(***************************************************************************)
BetweenText(negated) ==
    Join(<<IdX>> \o (IF negated THEN <<Word.Not>> ELSE <<>>)
         \o <<Word.Between, IdY, Word.And, <<"Z">>>>)

SpecBetween ==
    /\ \E negated, build \in BOOLEAN :
           \E environment \in
                 [{IdX, IdY, <<"Z">>} ->
                     {EMPTY, BoolValue(TRUE), StringValue(<<"a">>),
                      ExactValue(INT64_MIN), ExactValue(INT64_MIN + 1), ExactValue(1),
                      InexactValue(ToDouble(INT64_MIN)), InexactValue(DFin(1)),
                      InexactValue(DNaN)}] :
               InitWith(BetweenText(negated), environment, build)
    /\ [][Next]_vars

\* The value the range test has by its definition: UNKNOWN when an
\* operand is Unknown, else both comparisons.
BetweenValue(x, l, u) ==
    IF unknown(x) \/ unknown(l) \/ unknown(u) THEN "BN_UNKNOWN"
    ELSE BoolOrNone(OpGreq(x, l) /\ OpLseq(x, u))

\* C18 (as amended): x BETWEEN l AND u is UNKNOWN if any of x, l, u is
\* Unknown; otherwise it is TRUE iff x >= l and x <= u under the comparison
\* rules, hence FALSE whenever an operand is not numeric; x NOT BETWEEN l
\* AND u is the three-valued negation, UNKNOWN staying UNKNOWN.  Nothing is
\* said of l > u.
C18_Between ==
    LET x == env[IdX]
        l == env[IdY]
        u == env[<<"Z">>]
        v == BetweenValue(x, l, u)
    IN  /\ pc # "start" => pc \in {"compiled", "evaluated"}
        /\ pc = "evaluated" =>
              /\ exp = BetweenText(FALSE) => root_bn = v
              /\ exp = BetweenText(TRUE) =>
                    root_bn = (CASE v = "BN_TRUE" -> "BN_FALSE"
                                 [] v = "BN_FALSE" -> "BN_TRUE"
                                 [] OTHER -> "BN_UNKNOWN")
              /\ (v # "BN_UNKNOWN" /\ ~(numeric(x) /\ numeric(l) /\ numeric(u))) =>
                    v = "BN_FALSE"
              /\ ret = (IF root_bn = "BN_TRUE" THEN "true" ELSE "false")

C18_Witness ==
    /\ pc = "evaluated"
    /\ exp = BetweenText(TRUE)
    /\ env[IdX] = ExactValue(1)
    /\ env[IdY] = InexactValue(DFin(1))
    /\ env[<<"Z">>] = EMPTY
    /\ root_bn = "BN_UNKNOWN"
    /\ ret = "false"

\* C18 (as stated): the same, and FALSE whenever l > u.
C18_BetweenFalseWhenBoundsCrossed ==
    /\ C18_Between
    /\ (pc = "evaluated" /\ exp = BetweenText(FALSE) /\ OpGr(env[IdY], env[<<"Z">>])) =>
          root_bn = "BN_FALSE"


(***************************************************************************)
(* repr: the text an expression tree prints as.                            *)
(***************************************************************************)
\* operator<<(ostream&, const Value&), the stream in its default state: an
\* int64_t prints as a decimal numeral, a double as printf's %g does with
\* six significant digits.
StreamValue(v) ==
    LET RECURSIVE Pow10(_), Digits(_, _)
        Pow10(n) == IF n = 0 THEN 1 ELSE 10 * Pow10(n - 1)
        \* the decimal digits of n >= 0, at least width of them
        Digits(n, width) ==
            (IF n < 10 /\ width <= 1 THEN <<>> ELSE Digits(n \div 10, width - 1))
            \o <<(<<"0", "1", "2", "3", "4", "5", "6", "7", "8", "9">>)[(n % 10) + 1]>>
        StreamInt(i) == (IF i < 0 THEN <<"-">> ELSE <<>>) \o Digits(Abs(i), 1)
        StreamDouble(d) ==
            LET a == Abs(d.n)
                RECURSIVE Up(_), Down(_), Strip(_)
                Up(x) == IF a >= DScale * Pow10(x + 1) THEN Up(x + 1) ELSE x
                Down(k) == IF a * Pow10(k) >= DScale THEN -k ELSE Down(k + 1)
                Strip(ds) == IF ds # <<>> /\ ds[Len(ds)] = "0"
                             THEN Strip(SubSeq(ds, 1, Len(ds) - 1)) ELSE ds
                Rounded(x) ==
                    LET num == IF x <= 5 THEN a * Pow10(5 - x) ELSE a
                        den == IF x <= 5 THEN DScale ELSE DScale * Pow10(x - 5)
                        q == num \div den
                        r == num % den
                    IN  IF 2 * r > den \/ (2 * r = den /\ q % 2 = 1) THEN q + 1 ELSE q
                Shown(x, m) ==
                    LET ds == Digits(m, 6)
                        frac(from) == Let(Strip(SubSeq(ds, from, 6)), LAMBDA f :
                                          IF f = <<>> THEN <<>> ELSE <<".">> \o f)
                    IN  IF x < -4 \/ x >= 6
                        THEN <<ds[1]>> \o frac(2) \o <<"e", IF x < 0 THEN "-" ELSE "+">>
                             \o Digits(Abs(x), 2)
                        ELSE IF x >= 0 THEN SubSeq(ds, 1, x + 1) \o frac(x + 2)
                        ELSE <<"0", ".">> \o [j \in 1..(-x - 1) |-> "0"] \o Strip(ds)
            IN  (IF d.neg THEN <<"-">> ELSE <<>>) \o
                (CASE d.k = "nan" -> <<"n", "a", "n">>
                   [] d.k = "inf" -> <<"i", "n", "f">>
                   [] a = 0 -> <<"0">>
                   [] OTHER ->
                        Let(IF a >= DScale THEN Up(0) ELSE Down(1), LAMBDA x :
                        Let(Rounded(x), LAMBDA m :
                            IF m = Pow10(6) THEN Shown(x + 1, Pow10(5))
                            ELSE Shown(x, m))))
    IN  CASE v.type = "T_UNKNOWN" -> <<"U", "N", "K", "N", "O", "W", "N">>
          [] v.type = "T_BOOL" ->
                <<"B", "O", "O", "L", ":">>
                \o (IF v.b THEN <<"t", "r", "u", "e">> ELSE <<"f", "a", "l", "s", "e">>)
          [] v.type = "T_EXACT" -> <<"E", "X", "A", "C", "T", ":">> \o StreamInt(v.i)
          [] v.type = "T_INEXACT" ->
                <<"A", "P", "P", "R", "O", "X", ":">> \o StreamDouble(v.x)
          [] OTHER -> <<"S", "T", "R", "I", "N", "G", ":", "'">> \o v.s \o <<"'">>

\* Expression::repr, by the class of the node.
RECURSIVE repr(_)
repr(e) ==
    LET OperatorRepr(o) ==
            CASE o = "<>" -> <<"<", ">">>
              [] o = "<=" -> <<"<", "=">>
              [] o = ">=" -> <<">", "=">>
              [] o = "NOT" -> <<"N", "O", "T">>
              [] o = "IsNull" -> <<"I", "s", "N", "u", "l", "l">>
              [] o = "IsNonNull" -> <<"I", "s", "N", "o", "n", "N", "u", "l", "l">>
              [] OTHER -> <<o>>
        RECURSIVE List(_)
        List(i) == IF i > Len(e.l) THEN <<>>
                   ELSE repr(e.l[i])
                        \o (IF i < Len(e.l) THEN <<",", " ">> ELSE <<")">>)
                        \o List(i + 1)
    IN  CASE e.node \in {"ComparisonExpression", "ArithmeticExpression"} ->
                <<"(">> \o repr(e.e1) \o OperatorRepr(e.op) \o repr(e.e2) \o <<")">>
          [] e.node = "OrExpression" ->
                <<"(">> \o repr(e.e1) \o <<" ", "O", "R", " ">> \o repr(e.e2) \o <<")">>
          [] e.node = "AndExpression" ->
                <<"(">> \o repr(e.e1) \o <<" ", "A", "N", "D", " ">> \o repr(e.e2)
                \o <<")">>
          [] e.node \in {"UnaryBooleanExpression", "UnaryArithExpression"} ->
                OperatorRepr(e.op) \o <<"(">> \o repr(e.e1) \o <<")">>
          [] e.node = "LikeExpression" ->
                repr(e.e)
                \o <<" ", "R", "E", "G", "E", "X", "_", "M", "A", "T", "C", "H", " ", "'">>
                \o e.reString \o <<"'">>
          [] e.node = "BetweenExpression" ->
                repr(e.e) \o <<" ", "B", "E", "T", "W", "E", "E", "N", " ">> \o repr(e.l)
                \o <<" ", "A", "N", "D", " ">> \o repr(e.u)
          [] e.node = "InExpression" ->
                repr(e.e) \o <<" ", "I", "N", " ", "(">> \o List(1)
          [] e.node = "NotInExpression" ->
                repr(e.e) \o <<" ", "N", "O", "T", " ", "I", "N", " ", "(">> \o List(1)
          [] e.node = "Literal" -> StreamValue(e.value)
          [] e.node = "StringLiteral" -> <<"'">> \o e.value \o <<"'">>
          [] OTHER -> <<"I", ":">> \o e.identifier


(***************************************************************************)
(* SpecRepr: a selector of every class of node is compiled, and what it    *)
(* prints as is compiled again.                                            *)
(***************************************************************************)
SpecRepr ==
    /\ \E a, b \in {IdX, IdY, <<"'", "a", "'">>, <<"1">>, <<"0", ".", "5">>,
                    <<"t", "r", "u", "e">>},
          build \in BOOLEAN :
          \E text \in {a, <<"-">> \o a, <<"(">> \o a \o <<")">>,
                       Join(<<Word.Not, a>>),
                       Join(<<a, Word.Is, Word.Null>>),
                       Join(<<a, Word.Is, Word.Not, Word.Null>>),
                       Join(<<a, Word.Like, <<"'", "a", "%", "'">>>>),
                       Join(<<a, Word.Between, b, Word.And, a>>),
                       Join(<<a, Word.In, <<"(">>, b, <<",">>, a, <<")">>>>),
                       Join(<<a, Word.Not, Word.In, <<"(">>, b, <<")">>>>)}
                      \cup {Join(<<a, o, b>>) :
                              o \in {<<"=">>, <<"<", ">">>, <<"<">>, <<">", "=">>, <<"+">>,
                                     <<"/">>, Word.Or, Word.And}} :
              \E environment \in [{IdX, IdY} -> {EMPTY, ExactValue(1)}] :
                  InitWith(text, environment, build)
    /\ [][Next]_vars

\* C19: what a compiled selector prints as compiles, and prints as the
\* same text again.
C19_ReprRoundTrips ==
    (pc = "compiled" /\ expression # NullExpression) =>
        LET s == repr(expression)
            again == make_selector(s)
        IN  /\ again.exc = "none"
            /\ again.e.expression # NullExpression
            /\ repr(again.e.expression) = s


(***************************************************************************)
(* SpecUnary: a sign in front of an identifier, a literal, a parenthesised *)
(* expression and a signed expression.                                     *)
(***************************************************************************)
SpecUnary ==
    /\ \E sign \in {"+", "-"},
          operand \in {IdX, <<"1">>, <<"0", ".", "5">>, <<"'", "a", "'">>,
                       <<"(">> \o IdX \o <<")">>, <<"(", "1", ")">>,
                       <<"-">> \o IdX, <<"+">> \o IdX, <<"-", "1">>, <<"+", "1">>},
          build \in BOOLEAN :
          \E environment \in [{IdX} -> Values] :
              InitWith(<<sign>> \o operand, environment, build)
    /\ [][Next]_vars

\* C20: a sign is accepted in front of a parenthesised expression, a signed
\* expression, an identifier and a literal; + gives the operand itself, -
\* directly in front of an exact literal gives one negative literal and
\* anywhere else the negation of the operand, whose value is the negated
\* number (Unknown for what is no number).
C20_UnarySigns ==
    pc # "start" =>
        LET operand == make_selector(Tail(exp)).e.expression
            v == eval(operand, env)
        IN  /\ pc # "thrown"
            /\ expression =
                  (CASE exp[1] = "+" -> operand
                     [] isdigit(exp[2]) /\ operand.value.type = "T_EXACT" ->
                            Literal(ExactValue(-operand.value.i))
                     [] OTHER -> UnaryArithExpression("-", operand))
            /\ pc = "evaluated" =>
                  root_v = (CASE exp[1] = "+" -> v
                              [] v.type = "T_EXACT" /\ v.i # INT64_MIN -> ExactValue(-v.i)
                              [] v.type = "T_EXACT" -> root_v
                              [] v.type = "T_INEXACT" -> InexactValue(DNeg(v.x))
                              [] OTHER -> EMPTY)


(***************************************************************************)
(* SpecLexer: the raw lexer called on a string_view over and over, as the  *)
(* tokeniser tests call it, until it returns EOS or fails.                 *)
(***************************************************************************)
InitLexer(text, at) ==
    /\ pc = at
    /\ traps = FALSE
    /\ exp = text
    /\ tokens = <<>>
    /\ tokp = 0
    /\ input = text
    /\ error = ""
    /\ expression = NullExpression
    /\ env = [i \in {} |-> EMPTY]
    /\ root_v = [type |-> "none"]
    /\ root_bn = "none"
    /\ ret = IF at = "lexing" THEN [ok |-> FALSE, tok |-> DefaultToken] ELSE "none"
    /\ reads = NoReads
    /\ redo = <<>>
    /\ heap = NoHeap

\* bool r = tokenise(sv, tok): ret is <<r, tok>>, input the string_view,
\* reads.calls the number of calls made.  One call more than the text has
\* characters is as far as the caller is followed.
Tokenise ==
    /\ pc = "lexing"
    /\ reads.calls <= Len(exp)
    /\ \E r \in {tokenise(input)} :
           /\ input' = r.sv
           /\ ret' = [ok |-> r.ok, tok |-> r.tok]
           /\ pc' = IF r.ok /\ r.tok.type # "T_EOS" THEN "lexing" ELSE "lexed"
    /\ reads' = [reads EXCEPT !.calls = reads.calls + 1]
    /\ UNCHANGED <<traps, exp, tokens, tokp, error, expression, env, root_v, root_bn,
                   redo, heap>>

\* An identifier lexeme in the case given, before what follows it.
LexerWords ==
    LET Cased(w, upper) == [n \in DOMAIN w |-> IF n \in upper THEN UpperString[CharRank(w[n]) - 14]
                                                ELSE w[n]]
    IN  {Cased(reserved[r].word, upper) \o more :
            r \in DOMAIN reserved,
            upper \in {{}, {1}, {2}, {1, 2, 3, 4, 5, 6, 7}},
            more \in {<<>>, <<"_">>, <<"s">>, <<"+">>, <<" ", "x">>, <<".">>, <<"1">>}}
        \cup {Tail(reserved[r].word) : r \in DOMAIN reserved}
        \cup {<<"x">> \o reserved[r].word : r \in DOMAIN reserved}
        \cup {<<"\"">> \o reserved[r].word \o <<"\"">> : r \in DOMAIN reserved}

SpecLexer ==
    /\ \E text \in SeqsUpTo({" ", "0", "b", "3", ".", "e", "'", "<", "@"}, MaxLex)
                   \cup LexerWords :
           InitLexer(text, "lexing")
    /\ [][Tokenise]_vars

\* C21: a tokenise that reports failure leaves the string_view as it was
\* before the call, leading whitespace included.
C21_FailureConsumesNothing ==
    [][(pc = "lexing" /\ pc' = "lexed" /\ ~ret'.ok) => input' = input]_vars


(***************************************************************************)
(* SpecTokeniser: a Tokeniser over a text, and a caller that makes         *)
(* nextToken and returnTokens calls on it in any order, until a call       *)
(* throws or aborts.                                                       *)
(***************************************************************************)
\* The last n elements of a sequence, and the sequence without them.
Last(q, n) == SubSeq(q, Len(q) - n + 1, Len(q))
ButLast(q, n) == SubSeq(q, 1, Len(q) - n)

\* tokeniser.nextToken()
NextToken ==
    /\ pc = "reading"
    /\ reads.calls < MaxCalls
    /\ \E r \in {nextToken([tokens |-> tokens, tokp |-> tokp, input |-> input,
                            aborted |-> FALSE])} :
           /\ pc' = IF r.exc THEN "thrown" ELSE pc
           /\ tokens' = r.tk.tokens
           /\ tokp' = r.tk.tokp
           /\ input' = r.tk.input
           /\ ret' = IF r.exc THEN "TokenException" ELSE r.tok
           /\ reads' = [log |-> IF r.exc THEN reads.log ELSE Append(reads.log, r.tok),
                        atEOS |-> ~r.exc /\ r.tok.type = "T_EOS",
                        repeated |-> reads.repeated \/ reads.atEOS,
                        calls |-> reads.calls + 1]
           /\ redo' = IF redo = <<>> THEN <<>> ELSE Tail(redo)
    /\ UNCHANGED <<traps, exp, error, expression, env, root_v, root_bn, heap>>

\* tokeniser.returnTokens(n), n no more than the calls there are to undo.
ReturnTokens ==
    /\ pc = "reading"
    /\ reads.calls < MaxCalls
    /\ \E n \in 1..Len(reads.log) :
       \E tk \in {returnTokens([tokens |-> tokens, tokp |-> tokp, input |-> input,
                                aborted |-> FALSE], n)} :
           /\ tokp' = tk.tokp
           /\ pc' = IF tk.aborted THEN "killed" ELSE pc
           /\ ret' = IF tk.aborted THEN "SIGABRT" ELSE "returned"
           /\ reads' = [reads EXCEPT !.log = ButLast(reads.log, n), !.atEOS = FALSE,
                                     !.calls = reads.calls + 1]
           /\ redo' = Last(reads.log, n)
    /\ UNCHANGED <<traps, exp, tokens, input, error, expression, env, root_v, root_bn,
                   heap>>

NextTokeniser == NextToken \/ ReturnTokens

SpecTokeniser ==
    /\ \E text \in SeqsUpTo({" ", "a", "=", "@"}, MaxLex) : InitLexer(text, "reading")
    /\ [][NextTokeniser]_vars

\* C22 (as stated): returnTokens(n), n no more than the nextToken calls
\* there are to undo, does not fail, and the next n nextToken calls return
\* the tokens the last n nextToken calls returned, in their order.
C22_ReturnUndoesReads ==
    [][/\ pc' # "killed"
       /\ (redo # <<>> /\ Len(reads'.log) > Len(reads.log)) =>
             ret' = Head(redo)]_vars

\* C22 (as amended): the same, as long as no nextToken call was made
\* right after a nextToken call that returned EOS.
C22_ReturnUndoesReadsBeforeEOS ==
    [][~reads'.repeated =>
          /\ pc' # "killed"
          /\ (redo # <<>> /\ Len(reads'.log) > Len(reads.log)) =>
                ret' = Head(redo)]_vars

C22_Witness ==
    /\ pc = "reading"
    /\ exp = <<"a", "=">>
    /\ reads.log = <<Token("T_IDENTIFIER", <<"a">>), Token("T_EQUAL", <<"=">>),
                     Token("T_EOS", <<"<", "E", "N", "D", ">">>)>>
    /\ reads.calls = 5
    /\ tokp = 3
    /\ ~reads.repeated


\* The tokens of a text: what tokenise returns, call after call, up to the
\* EOS or to the call that fails.
RECURSIVE LexAll(_)
LexAll(sv) ==
    Let(tokenise(sv), LAMBDA r :
        IF ~r.ok THEN <<>>
        ELSE IF r.tok.type = "T_EOS" THEN <<r.tok>>
        ELSE <<r.tok>> \o LexAll(r.sv))

\* C23: once nextToken has returned EOS, the nextToken calls that follow
\* it return EOS; and the buffer always holds tokens lexed from the input
\* and nothing else: a prefix of the tokens of the text, hence one EOS at
\* most, nothing after it, and no entry of a lex that failed.
C23_EOSRepeatsAndBufferIsLexed ==
    [][/\ (reads.atEOS /\ Len(reads'.log) > Len(reads.log)) => ret'.type = "T_EOS"
       /\ Len(tokens') <= Len(LexAll(exp))
       /\ tokens' = SubSeq(LexAll(exp), 1, Len(tokens'))]_vars


\* C24: the value of an exact numeric literal is the integer its digits
\* denote in its base (16 after 0x, 2 after 0b, 8 after a leading 0, 10
\* otherwise), whatever the first digit after the prefix is.
C24_LiteralValueInItsBase ==
    \A base \in {2, 8, 10, 16}, n \in 0..INT64_MAX, compared \in BOOLEAN, padded \in BOOLEAN :
        (/\ pc # "start"
         /\ padded => base \in {2, 8, 16}
         /\ exp = LiteralText(base, n, FALSE, compared, padded)) =>
            /\ pc # "thrown"
            /\ (IF compared THEN expression.e2 ELSE expression) = Literal(ExactValue(n))


(***************************************************************************)
(* SpecTranslate: X LIKE 'p' for the patterns of one character, every      *)
(* character the translation tells apart among them, and of two            *)
(* characters that open no group or interval.                              *)
(***************************************************************************)
SpecTranslate ==
    /\ \E p \in {<<c>> : c \in {"]", "{", "}", "(", ")", "-", "+", "?", "|", "\\", "^", "$",
                               ".", "*", "[", "%", "_", "a"}}
                \cup {<<c, d>> : c, d \in {"]", "}", "-", "+", "?", "|", "\\", ".", "*",
                                          "%", "a"}},
          build \in BOOLEAN :
          \E environment \in [{IdX} -> {EMPTY, StringValue(<<"a">>), StringValue(<<"+">>)}] :
              InitWith(Join(<<IdX, Word.Like, <<"'">> \o p \o <<"'">>>>), environment, build)
    /\ [][Next]_vars

\* C25: the translation of a pattern is ^, then for each character of the
\* pattern [c] for c one of ] { } ( ) - + ? |, \c for c one of \ ^ $ . *,
\* .* for %, . for _ and c itself for any other c, then $.
C25_Translation ==
    LET pattern == SubSeq(exp, 9, Len(exp) - 1)
        Emit(c) == CASE c \in {"]", "{", "}", "(", ")", "-", "+", "?", "|"} -> <<"[", c, "]">>
                     [] c \in {"\\", "^", "$", ".", "*"} -> <<"\\", c>>
                     [] c = "%" -> <<".", "*">>
                     [] c = "_" -> <<".">>
                     [] OTHER -> <<c>>
        RECURSIVE Emitted(_)
        Emitted(i) == IF i > Len(pattern) THEN <<>> ELSE Emit(pattern[i]) \o Emitted(i + 1)
    IN  pc # "start" =>
            /\ toRegex(pattern, <<>>).regex = <<"^">> \o Emitted(1) \o <<"$">>
            /\ pc \in {"compiled", "evaluated"} =>
                  expression.reString = <<"^">> \o Emitted(1) \o <<"$">>


\* The longest prefix of a text that an unquoted identifier can be.
RECURSIVE IdentifierPrefix(_, _)
IdentifierPrefix(text, n) ==
    IF n < Len(text) /\ isIdentifierPart(text[n + 1]) THEN IdentifierPrefix(text, n + 1)
    ELSE SubSeq(text, 1, n)

C27_ListOrderIsIrrelevant ==
    LET n == Len(expression.l)
        Permuted(f) == [expression EXCEPT !.l = [i \in 1..n |-> expression.l[f[i]]]]
    IN  (pc = "evaluated" /\ expression.node \in {"InExpression", "NotInExpression"}) =>
            \A f \in Permutations(1..n) : eval_bool(Permuted(f), env) = root_bn

\* C27's case: a string before an Unknown element, for a number: UNKNOWN,
\* as with the two elements the other way round.
C27_Witness ==
    /\ pc = "evaluated"
    /\ expression.node = "NotInExpression"
    /\ Len(expression.l) = 2
    /\ env[IdX] = ExactValue(1)
    /\ env[ListId(1)] = StringValue(<<"a">>)
    /\ env[ListId(2)] = EMPTY
    /\ root_bn = "BN_UNKNOWN"


(***************************************************************************)
(* SpecParse: make_selector on every text of up to MaxParse lexemes, well  *)
(* formed or not, on its own, after X IN ( X, whose list goes on or ends,  *)
(* and after X LIKE '%' ESCAPE, whose next string makes the parser call    *)
(* throwParseError.                                                        *)
(***************************************************************************)
ParseTexts ==
    LET percent == <<"'", "%", "'">>
        lexemes == {IdX, <<"(">>, <<")">>, <<",">>, <<"-">>, <<"@">>, percent,
                    Word.In, Word.Not, Word.Like, Word.Between, Word.And}
    IN  {Join(first \o ws) :
            first \in {<<>>, <<IdX, Word.In, <<"(">>, IdX>>,
                       <<IdX, Word.Like, percent, Word.Escape>>},
            ws \in SeqsUpTo(lexemes, MaxParse)}

SpecParse ==
    /\ \E text \in ParseTexts :
          InitWith(text, [id \in {IdX} |-> EMPTY], TRUE)
    /\ [][MakeSelector]_vars

\* C28: during make_selector no call of returnTokens(n), by the parser or
\* by throwParseError, has n > tokp, so that the assertion of returnTokens
\* holds, and 0 <= tokp <= the number of buffered tokens.
C28_ReturnTokensWithinReads ==
    pc # "start" =>
        /\ ret # "abort"
        /\ 0 <= tokp
        /\ tokp <= Len(tokens)

\* C28's case: throwParseError has returned the ESCAPE string and read it
\* again for its message.
C28_Witness ==
    /\ exp = Join(<<IdX, Word.Like, <<"'", "%", "'">>, Word.Escape, <<"'", "%", "'">>>>)
    /\ pc = "thrown"
    /\ ret = "range_error"
    /\ tokp = 5
    /\ Len(tokens) = 5


\* C29: every successful tokenise call that returns a token other than EOS
\* removes at least one character from the input, so that the tokens read
\* before EOS or a lexical error are never more than the characters
\* consumed, and at most as many as the input has.
C29_EveryTokenAdvances ==
    /\ [][(ret'.ok /\ ret'.tok.type # "T_EOS") => Len(input') < Len(input)]_vars
    /\ [](pc = "lexing" => reads.calls <= Len(exp) - Len(input))

\* C29's case: < has been lexed off the text <3b, and two characters stay.
C29_Witness ==
    /\ exp = <<"<", "3", "b">>
    /\ pc = "lexing"
    /\ ret.tok = Token("T_LESS", <<"<">>)
    /\ input = <<"3", "b">>


(***************************************************************************)
(* SpecHandles: a C program that calls the handle interface in any order,  *)
(* with one environment at a time, the variables x and y and up to         *)
(* MaxValues allocated Values.  It frees only handles it created and has   *)
(* not handed to the environment, and passes no handle of a deleted        *)
(* object.  A delete of EMPTY, which no new made, or a second delete of an *)
(* object is undefined behaviour; the program is not followed beyond it.   *)
(***************************************************************************)
InitHandles ==
    /\ pc = "handles"
    /\ traps = FALSE
    /\ exp = <<>>
    /\ tokens = <<>>
    /\ tokp = 0
    /\ input = <<>>
    /\ error = ""
    /\ expression = NullExpression
    /\ env = [i \in {} |-> EMPTY]
    /\ root_v = [type |-> "none"]
    /\ root_bn = "none"
    /\ ret = "none"
    /\ reads = NoReads
    /\ redo = <<>>
    /\ heap = NoHeap

\* The heap h after a call; pc tells whether the call deleted EMPTY or an
\* object a second time.
Called(h) ==
    /\ heap' = h
    /\ pc' = IF h.deletes[0] > 0 \/ (\E a \in 1..MaxValues : h.deletes[a] > 1)
             THEN "undefined" ELSE "handles"
    /\ UNCHANGED <<traps, exp, tokens, tokp, input, error, expression, env, root_v,
                   root_bn, ret, reads, redo>>

\* new selector::Value(...): the heap with a Value at the next address, the
\* address handed to the caller.
New(kind) ==
    [heap EXCEPT !.objects = Append(@, kind),
                 !.owned = @ \cup {Len(heap.objects) + 1},
                 !.got = @ \cup {Len(heap.objects) + 1}]

selector_value_bool ==
    /\ pc = "handles"
    /\ Len(heap.objects) < MaxValues
    /\ Called(New("bool"))

selector_value_exact ==
    /\ pc = "handles"
    /\ Len(heap.objects) < MaxValues
    /\ Called(New("int64_t"))

selector_value_approx ==
    /\ pc = "handles"
    /\ Len(heap.objects) < MaxValues
    /\ Called(New("double"))

selector_value_string ==
    /\ pc = "handles"
    /\ Len(heap.objects) < MaxValues
    /\ Called(New("string_view"))

\* selector_value_unknown: the address of EMPTY.
selector_value_unknown ==
    /\ pc = "handles"
    /\ Called([heap EXCEPT !.owned = @ \cup {0}, !.got = @ \cup {0}])

\* selector_value_free: delete, unless v is the address of EMPTY.
selector_value_free(v) ==
    /\ pc = "handles"
    /\ v \in heap.owned
    /\ Called([heap EXCEPT !.deletes[v] = IF v # 0 THEN @ + 1 ELSE @,
                           !.owned = @ \ {v},
                           !.got = @ \ {v}])

\* selector_environment
selector_environment ==
    /\ pc = "handles"
    /\ heap.environment # "live"
    /\ Called([heap EXCEPT !.environment = "live", !.values = [var \in {} |-> 0]])

\* selector_environment_free: the map's unique_ptrs delete what they hold.
selector_environment_free ==
    /\ pc = "handles"
    /\ heap.environment = "live"
    /\ LET held(a) == {var \in DOMAIN heap.values : heap.values[var] = a}
       IN  Called([heap EXCEPT !.environment = "freed",
                               !.values = [var \in {} |-> 0],
                               !.deletes = [a \in 0..MaxValues |-> @[a] + Cardinality(held(a))],
                               !.got = {a \in @ : held(a) = {}}])

\* selector_environment_set: values[var] = unique_ptr(val), which deletes
\* what values[var] held.
selector_environment_set(var, val) ==
    /\ pc = "handles"
    /\ heap.environment = "live"
    /\ val \in heap.got
    /\ LET had == var \in DOMAIN heap.values
           old == IF had THEN heap.values[var] ELSE 0
       IN  Called([heap EXCEPT !.values = [name \in DOMAIN @ \cup {var} |->
                                              IF name = var THEN val ELSE @[name]],
                               !.deletes[old] = IF had THEN @ + 1 ELSE @,
                               !.owned = @ \ {val},
                               !.got = IF had THEN @ \ {old} ELSE @])

\* selector_environment_get: the Value the map holds, or EMPTY.
selector_environment_get(var) ==
    /\ pc = "handles"
    /\ heap.environment = "live"
    /\ LET val == IF var \in DOMAIN heap.values THEN heap.values[var] ELSE 0
       IN  Called([heap EXCEPT !.got = IF heap.deletes[val] = 0 THEN @ \cup {val} ELSE @])

NextHandles ==
    \/ selector_value_unknown
    \/ selector_value_bool
    \/ selector_value_exact
    \/ selector_value_approx
    \/ selector_value_string
    \/ \E v \in 0..MaxValues : selector_value_free(v)
    \/ selector_environment
    \/ selector_environment_free
    \/ \E var \in {"x", "y"}, val \in 0..MaxValues : selector_environment_set(var, val)
    \/ \E var \in {"x", "y"} : selector_environment_get(var)

SpecHandles == InitHandles /\ [][NextHandles]_vars

\* C30: whatever the caller calls, as long as it frees only handles it
\* created and has not handed to an environment, EMPTY, the Unknown that
\* selector_value_unknown returns, is never deleted and no Value is
\* deleted twice.
C30_UnknownKeptAndNoDoubleDelete ==
    pc \in {"handles", "undefined"} =>
        /\ heap.deletes[0] = 0
        /\ \A a \in 1..MaxValues : heap.deletes[a] <= 1

=============================================================================
